---- MODULE Spec2Model ----
(***************************************************************************)
(* A model of gitscribe's commit-message engine (AICommitAssistant), its   *)
(* callers (the CLI and the web routes) and the git adapter.               *)
(*                                                                         *)
(* Text.  A JavaScript string is a sequence of tokens.  A token is a word  *)
(* ([A-Za-z0-9_]+, cut further wherever a phrase the code searches for     *)
(* starts or ends inside it), or one other character.  "\n" is the line    *)
(* break.  includes/startsWith/endsWith are searches for a contiguous run  *)
(* of tokens; split, join and trim work on the token sequence.             *)
(*                                                                         *)
(* Numbers.  confidence is kept in percent: 90 is 0.9, 85 is 0.85.         *)
(***************************************************************************)
EXTENDS Integers, Sequences, FiniteSets, TLC

VARIABLES
    parse,      \* one call of parseAIResponse: [pc, text, out]
    classify,   \* analyzeChangesForFallback on a file list and on a permutation of it
    env,        \* process.env: AI_COMMIT_SKIP_AI, AI_COMMIT_MODEL
    assistant,  \* the fields of the AICommitAssistant: modelId, model, modelLoaded
    run,        \* the entry point running, its position and what it holds
    inflight,   \* the model calls that lost their race and have not settled
    git,        \* one call of getStagedChanges: [pc, copy, status, failing, out]
    heur,       \* one staged change set and what the heuristic analysers return for it
    cli,        \* the command line and the web route: cache file, clock, command running
    fallback    \* generateFallbackSuggestions on a file list and on a permutation of it

vars == <<parse, classify, env, assistant, run, inflight, git, heur, cli, fallback>>

\* A part of the program that is not running in the specification at hand.
Unused(v) == v = [pc |-> "idle"]

----------------------------------------------------------------------------
(* Strings *)

NL == "\n"

\* JavaScript's undefined, for the optional string fields scope and body.
Null == <<"<undefined>">>

\* Truthiness of an optional string: neither undefined nor ''.
Truthy(s) == s # Null /\ s # <<>>

WhiteSpace == {" ", "\t", "\r"}

\* `.` of a regular expression without the s flag: no line terminator.
LineTerminators == {"\n", "\r"}

Min(a, b) == IF a <= b THEN a ELSE b

RECURSIVE TrimStart(_)
TrimStart(s) ==
    IF s # <<>> /\ Head(s) \in WhiteSpace \cup {NL} THEN TrimStart(Tail(s)) ELSE s

RECURSIVE TrimEnd(_)
TrimEnd(s) ==
    IF s # <<>> /\ s[Len(s)] \in WhiteSpace \cup {NL}
    THEN TrimEnd(SubSeq(s, 1, Len(s) - 1))
    ELSE s

Trim(s) == TrimEnd(TrimStart(s))

StartsWithAt(s, p, i) ==
    /\ i + Len(p) - 1 <= Len(s)
    /\ \A k \in 1..Len(p) : s[i + k - 1] = p[k]

Includes(s, p) == \E i \in 1..(Len(s) - Len(p) + 1) : StartsWithAt(s, p, i)

StartsWith(s, p) == StartsWithAt(s, p, 1)

EndsWith(s, p) == Len(p) <= Len(s) /\ StartsWithAt(s, p, Len(s) - Len(p) + 1)

\* text.split('\n')
RECURSIVE SplitLines(_)
SplitLines(s) ==
    IF \A i \in 1..Len(s) : s[i] # NL
    THEN <<s>>
    ELSE LET k == CHOOSE i \in 1..Len(s) :
                      s[i] = NL /\ \A j \in 1..(i - 1) : s[j] # NL
         IN  <<SubSeq(s, 1, k - 1)>> \o SplitLines(SubSeq(s, k + 1, Len(s)))

\* parts.join(sep)
RECURSIVE Join(_, _)
Join(parts, sep) ==
    IF parts = <<>> THEN <<>>
    ELSE IF Len(parts) = 1 THEN parts[1]
    ELSE parts[1] \o sep \o Join(Tail(parts), sep)

\* The tokens with an upper-case letter that the model's texts use, and their
\* lower-case forms (String.prototype.toLowerCase, token by token).
LowerOf ==
    ("FEAT" :> "feat") @@ ("Feat" :> "feat") @@ ("FIX" :> "fix") @@ ("Fix" :> "fix")
    @@ ("Docs" :> "docs") @@ ("Description" :> "description")
    @@ ("Type" :> "type") @@ ("Scope" :> "scope") @@ ("Commit" :> "commit")
    @@ ("Generate" :> "generate") @@ ("Format" :> "format")
    @@ ("Focus" :> "focus") @@ ("Example" :> "example")
    @@ ("IMPORTANT" :> "important") @@ ("Good" :> "good") @@ ("Bad" :> "bad")
    @@ ("BREAKING" :> "breaking") @@ ("CHANGE" :> "change")
    @@ ("What" :> "what") @@ ("Why" :> "why") @@ ("Key" :> "key")
    @@ ("First" :> "first") @@ ("Body" :> "body") @@ ("File" :> "file")
    @@ ("Files" :> "files") @@ ("Total" :> "total") @@ ("Code" :> "code")
    @@ ("Button" :> "button") @@ ("Card" :> "card") @@ ("Modal" :> "modal")
    @@ ("Panel" :> "panel") @@ ("LoginForm" :> "loginform")
    @@ ("UserService" :> "userservice") @@ ("Foo" :> "foo")
    @@ ("LegacyWidget" :> "legacywidget") @@ ("Widget" :> "widget")
    @@ ("Legacy" :> "legacy") @@ ("Helper" :> "helper")
    @@ ("Y" :> "y") @@ ("Yes" :> "yes")

ToLowerTok(t) == IF t \in DOMAIN LowerOf THEN LowerOf[t] ELSE t

ToLowerCase(s) == [i \in 1..Len(s) |-> ToLowerTok(s[i])]

----------------------------------------------------------------------------
(* parseAIResponse *)

TypeSet ==
    {"feat", "fix", "refactor", "docs", "style", "test", "chore", "perf", "ci", "build"}

stopMarkers ==
    { <<"Generate", " ", "a", " ", "conventional", " ", "commit">>,
      <<"IMPORTANT", ":">>,
      <<"Good", " ", "example", " ", "format", ":">>,
      <<"Bad", " ", "example", " ", "(", "DO", " ", "NOT", " ", "DO", " ", "THIS", ")", ":">>,
      <<"First", " ", "line", ":", " ", "type", "(", "scope", ")", ":">>,
      <<"Format", ":", " ", "type", "(", "scope", ")", ":">>,
      <<"Commit", " ", "message", ":">>,
      <<"Body", " ", "(", "required", " ", "for", " ", "multi", "-", "file", " ",
        "changes", ")", ":">>,
      <<"Focus", " ", "on", " ", "the", " ", "MEANING", " ", "and", " ", "PURPOSE">> }

HasStopMarker(rawLine) == \E m \in stopMarkers : Includes(Trim(rawLine), m)

\* Mutant: no line is taken for a stop marker.
StopAtLine_none(lines) == Len(lines) + 1

\* The index of the first line holding a stop marker, lines.length when none
\* (indices from 1 here: Len(lines) + 1).
StopAtLine(lines) ==
    IF \E i \in 1..Len(lines) : HasStopMarker(lines[i])
    THEN CHOOSE i \in 1..Len(lines) :
             HasStopMarker(lines[i]) /\ \A j \in 1..(i - 1) : ~HasStopMarker(lines[j])
    ELSE Len(lines) + 1

\* line.match(/^(feat|...|build)(\(([^)]+)\))?(!)?:\s*(.+)$/i) on a trimmed line.
HeaderMatch(line) ==
    LET n        == Len(line)
        typeOk   == n >= 1 /\ ToLowerTok(line[1]) \in TypeSet
        hasParen == n >= 2 /\ line[2] = "("
        closeIdx == IF hasParen /\ \E k \in 3..n : line[k] = ")"
                    THEN CHOOSE k \in 3..n :
                             line[k] = ")" /\ \A j \in 3..(k - 1) : line[j] # ")"
                    ELSE 0
        scopeOk  == closeIdx >= 4
        next     == IF scopeOk THEN closeIdx + 1 ELSE 2
        bang     == next <= n /\ line[next] = "!"
        colonIdx == IF bang THEN next + 1 ELSE next
        colonOk  == colonIdx <= n /\ line[colonIdx] = ":"
        rest     == SubSeq(line, colonIdx + 1, n)
        skipped  == TrimStart(rest)
        subject  == IF skipped # <<>> THEN skipped
                    ELSE IF rest # <<>> THEN <<rest[Len(rest)]>>
                    ELSE <<>>
        dotOk    == subject # <<>>
                    /\ \A i \in 1..Len(subject) : subject[i] \notin LineTerminators
    IN  IF typeOk /\ colonOk /\ dotOk
        THEN [ok |-> TRUE, type |-> line[1],
              scope |-> IF scopeOk THEN SubSeq(line, 3, closeIdx - 1) ELSE Null,
              breaking |-> bang, subject |-> subject]
        ELSE [ok |-> FALSE, type |-> "", scope |-> Null, breaking |-> FALSE,
              subject |-> <<>>]

isMetaCommentary(line, subjectText) ==
    \/ Includes(subjectText, <<"type", "(", "scope", ")">>)
    \/ Includes(subjectText, <<"brief", " ", "description">>)
    \/ Includes(subjectText, <<"what", " ", "was", " ", "accomplished">>)
    \/ Includes(ToLowerCase(line), <<"description", ":">>)
    \/ subjectText = <<"improvements">>
    \/ subjectText = <<"updates">>

isInstruction(line) ==
    LET low == ToLowerCase(line)
    IN  \/ Includes(low, <<"commit", " ", "message">>)
        \/ Includes(low, <<"example">>)
        \/ Includes(low, <<"format">>)
        \/ Includes(low, <<"generate">>)
        \/ Includes(line, <<"Type", ":">>)
        \/ Includes(line, <<"Scope", ":">>)
        \/ Includes(line, <<"Description", ":">>)
        \/ Includes(low, <<"what", " ", "specific", " ", "improvements">>)
        \/ Includes(low, <<"why", " ", "these", " ", "changes">>)
        \/ Includes(low, <<"key", " ", "files", " ", "or", " ", "components">>)
        \/ Includes(low, <<"focus", " ", "on">>)

\* `type(scope)!: subject\n\nbody`, each part only when set.
FullMessage(type, scope, breaking, subject, body) ==
    <<type>>
    \o (IF Truthy(scope) THEN <<"(">> \o scope \o <<")">> ELSE <<>>)
    \o (IF breaking THEN <<"!">> ELSE <<>>)
    \o <<":", " ">> \o subject
    \o (IF Truthy(body) THEN <<NL, NL>> \o body ELSE <<>>)

ParsedConfidence == 90

\* The suggestion pushed for currentSuggestion and the body lines gathered.
CloseSuggestion(cur, bodyLines) ==
    LET body == IF Len(bodyLines) > 0 THEN Trim(Join(bodyLines, <<NL>>)) ELSE Null
    IN  [type |-> cur.type, scope |-> cur.scope, subject |-> cur.subject,
         body |-> body, breaking |-> cur.breaking,
         fullMessage |-> FullMessage(cur.type, cur.scope, cur.breaking,
                                     cur.subject, body),
         confidence |-> ParsedConfidence]

NoCurrent ==
    [open |-> FALSE, type |-> "", scope |-> Null, subject |-> <<>>, breaking |-> FALSE]

\* currentSuggestion && currentSuggestion.type && currentSuggestion.subject
CurrentValid(cur) == cur.open /\ cur.type # "" /\ Truthy(cur.subject)

\* The scan of relevantLines from line i on.
RECURSIVE ScanLines(_, _, _, _, _)
ScanLines(lines, i, cur, bodyLines, suggestions) ==
    IF i > Len(lines)
    THEN IF CurrentValid(cur)
         THEN Append(suggestions, CloseSuggestion(cur, bodyLines))
         ELSE suggestions
    ELSE
      LET line == Trim(lines[i])
          m    == HeaderMatch(line)
          subjectText == Trim(m.subject)
      IN  IF line = <<>> THEN ScanLines(lines, i + 1, cur, bodyLines, suggestions)
          ELSE IF m.ok
          THEN IF isMetaCommentary(line, subjectText)
               THEN ScanLines(lines, i + 1, cur, bodyLines, suggestions)
               ELSE ScanLines(lines, i + 1,
                      [open |-> TRUE, type |-> ToLowerTok(m.type),
                       scope |-> IF m.scope = Null THEN Null ELSE Trim(m.scope),
                       subject |-> subjectText,
                       breaking |-> m.breaking
                                    \/ Includes(line, <<"BREAKING", " ", "CHANGE">>)],
                      <<>>,
                      IF CurrentValid(cur)
                      THEN Append(suggestions, CloseSuggestion(cur, bodyLines))
                      ELSE suggestions)
          ELSE IF cur.open
          THEN ScanLines(lines, i + 1, cur,
                         IF isInstruction(line) THEN bodyLines
                         ELSE Append(bodyLines, line),
                         suggestions)
          ELSE ScanLines(lines, i + 1, cur, bodyLines, suggestions)

MaxParsed == 2

\* Mutant: the cap of three the code had before it was reduced to two.
SliceSuggestions_three(suggestions) ==
    SubSeq(suggestions, 1, Min(MaxParsed + 1, Len(suggestions)))

\* suggestions.slice(0, 2)
SliceSuggestions(suggestions) ==
    SubSeq(suggestions, 1, Min(MaxParsed, Len(suggestions)))

\* Mutant: the lines holding a stop marker are left out and the scan goes on
\* after them.
parseAIResponse_skipMarkers(text) ==
    LET lines         == SplitLines(text)
        NoMarker(l)   == ~HasStopMarker(l)
        relevantLines == SelectSeq(lines, NoMarker)
    IN  SliceSuggestions(ScanLines(relevantLines, 1, NoCurrent, <<>>, <<>>))

parseAIResponse(text) ==
    LET lines         == SplitLines(text)
        relevantLines == SubSeq(lines, 1, StopAtLine(lines) - 1)
    IN  SliceSuggestions(ScanLines(relevantLines, 1, NoCurrent, <<>>, <<>>))

----------------------------------------------------------------------------
(* analyzeChangesForFallback *)

\* A GitDiff is [file, status, additions, deletions, diff]; a StagedChanges
\* is [files, summary, hasChanges].

\* The branch of the per-file else-if chain a path takes.
FileKind(file) ==
    IF Includes(file, <<".", "test", ".">>) \/ Includes(file, <<".", "spec", ".">>)
    THEN "tests"
    ELSE IF EndsWith(file, <<".", "md">>)
    THEN "docs"
    ELSE IF \/ Includes(file, <<"package", ".", "json">>)
            \/ Includes(file, <<"tsconfig", ".", "json">>)
            \/ Includes(file, <<".", "config", ".">>)
    THEN "config"
    ELSE IF \/ Includes(file, <<"webpack">>) \/ Includes(file, <<"vite">>)
            \/ Includes(file, <<"build">>) \/ Includes(file, <<"/", "dist", "/">>)
    THEN "build"
    ELSE IF Includes(file, <<"/", "cli", "/">>) \/ Includes(file, <<"cli", "-">>)
    THEN "cli"
    ELSE IF \/ Includes(file, <<"component">>)
            \/ EndsWith(file, <<".", "tsx">>) \/ EndsWith(file, <<".", "jsx">>)
    THEN "components"
    ELSE IF \/ Includes(file, <<"/", "api", "/">>) \/ Includes(file, <<"route", ".">>)
            \/ Includes(file, <<"controller">>)
    THEN "api"
    ELSE IF \/ EndsWith(file, <<".", "css">>) \/ EndsWith(file, <<".", "scss">>)
            \/ Includes(file, <<"style">>)
    THEN "styles"
    ELSE "other"

NoFlags ==
    [hasTests |-> FALSE, hasDocs |-> FALSE, hasConfig |-> FALSE, hasBuild |-> FALSE,
     hasComponents |-> FALSE, hasAPI |-> FALSE, hasStyles |-> FALSE, hasCLI |-> FALSE,
     mainFiles |-> <<>>]

\* The condition of one branch of the chain, taken on its own.
PathMatches(file, kind) ==
    CASE kind = "tests"  -> Includes(file, <<".", "test", ".">>) \/ Includes(file, <<".", "spec", ".">>)
      [] kind = "docs"   -> EndsWith(file, <<".", "md">>)
      [] kind = "config" -> \/ Includes(file, <<"package", ".", "json">>)
                            \/ Includes(file, <<"tsconfig", ".", "json">>)
                            \/ Includes(file, <<".", "config", ".">>)
      [] kind = "build"  -> \/ Includes(file, <<"webpack">>) \/ Includes(file, <<"vite">>)
                            \/ Includes(file, <<"build">>) \/ Includes(file, <<"/", "dist", "/">>)
      [] kind = "cli"    -> Includes(file, <<"/", "cli", "/">>) \/ Includes(file, <<"cli", "-">>)
      [] kind = "components" -> \/ Includes(file, <<"component">>)
                                \/ EndsWith(file, <<".", "tsx">>) \/ EndsWith(file, <<".", "jsx">>)
      [] kind = "api"    -> \/ Includes(file, <<"/", "api", "/">>) \/ Includes(file, <<"route", ".">>)
                            \/ Includes(file, <<"controller">>)
      [] kind = "styles" -> \/ EndsWith(file, <<".", "css">>) \/ EndsWith(file, <<".", "scss">>)
                            \/ Includes(file, <<"style">>)
      [] OTHER -> FALSE

\* Mutant: every branch whose condition holds sets its flag, as if the chain
\* were a row of independent if statements.
ScanFile_independent(acc, f) ==
    [acc EXCEPT !.hasTests = @ \/ PathMatches(f.file, "tests"),
                !.hasDocs = @ \/ PathMatches(f.file, "docs"),
                !.hasConfig = @ \/ PathMatches(f.file, "config"),
                !.hasBuild = @ \/ PathMatches(f.file, "build"),
                !.hasCLI = @ \/ PathMatches(f.file, "cli"),
                !.hasComponents = @ \/ PathMatches(f.file, "components"),
                !.hasAPI = @ \/ PathMatches(f.file, "api"),
                !.hasStyles = @ \/ PathMatches(f.file, "styles")]

\* One pass of changes.files.forEach: the flags and mainFiles after file f.
ScanFile(acc, f) ==
    LET kind == FileKind(f.file)
    IN  CASE kind = "tests"  -> [acc EXCEPT !.hasTests = TRUE]
          [] kind = "docs"   ->
               [acc EXCEPT !.hasDocs = TRUE,
                           !.mainFiles = IF f.additions > 10 THEN Append(@, f.file) ELSE @]
          [] kind = "config" -> [acc EXCEPT !.hasConfig = TRUE]
          [] kind = "build"  -> [acc EXCEPT !.hasBuild = TRUE]
          [] kind = "cli"    -> [acc EXCEPT !.hasCLI = TRUE]
          [] kind = "components" ->
               [acc EXCEPT !.hasComponents = TRUE,
                           !.mainFiles = IF f.additions + f.deletions > 20
                                         THEN Append(@, f.file) ELSE @]
          [] kind = "api"    ->
               [acc EXCEPT !.hasAPI = TRUE, !.mainFiles = Append(@, f.file)]
          [] kind = "styles" -> [acc EXCEPT !.hasStyles = TRUE]
          [] OTHER ->
               [acc EXCEPT !.mainFiles = IF f.additions + f.deletions > 30
                                         THEN Append(@, f.file) ELSE @]

\* Mutant: only the first file is looked at.
ScanFiles_firstOnly(files, i, acc) ==
    IF files = <<>> THEN acc ELSE ScanFile(acc, files[1])

RECURSIVE ScanFiles(_, _, _)
ScanFiles(files, i, acc) ==
    IF i > Len(files) THEN acc ELSE ScanFiles(files, i + 1, ScanFile(acc, files[i]))

\* files.reduce((sum, f) => sum + f.additions, 0)
RECURSIVE SumAdditions(_)
SumAdditions(files) ==
    IF files = <<>> THEN 0 ELSE Head(files).additions + SumAdditions(Tail(files))

RECURSIVE SumDeletions(_)
SumDeletions(files) ==
    IF files = <<>> THEN 0 ELSE Head(files).deletions + SumDeletions(Tail(files))

analyzeChangesForFallback(changes) ==
    LET fl        == ScanFiles(changes.files, 1, NoFlags)
        additions == SumAdditions(changes.files)
        deletions == SumDeletions(changes.files)
        tc == IF fl.hasTests
              THEN <<"test", "testing">>
              ELSE IF fl.hasDocs /\ ~fl.hasComponents /\ ~fl.hasAPI
              THEN <<"docs", "documentation">>
              ELSE IF fl.hasConfig /\ Len(changes.files) <= 3
              THEN <<"chore", "configuration">>
              ELSE IF fl.hasBuild \/ fl.hasCLI
              THEN <<"build", IF fl.hasCLI THEN "cli" ELSE "build">>
              ELSE IF fl.hasStyles /\ ~fl.hasComponents /\ ~fl.hasAPI
              THEN <<"style", "styling">>
              ELSE IF fl.hasAPI
              THEN <<IF additions > 50 THEN "feat" ELSE "fix", "API">>
              ELSE IF fl.hasComponents
              THEN <<IF additions > 50 THEN "feat" ELSE "fix", "components">>
              ELSE IF additions > deletions * 2
              THEN <<"feat", "features">>
              ELSE IF deletions > additions * 2
              THEN <<"refactor", "refactoring">>
              ELSE <<"fix", "fixes">>
    IN  [type |-> tc[1], category |-> tc[2], mainFiles |-> fl.mainFiles]

----------------------------------------------------------------------------
(* analyzeDiffsInDepth *)

\* The tokens that are not words (\w+).
NonWordTokens ==
    WhiteSpace \cup
    {"\n", "(", ")", "{", "}", "[", "]", "<", ">", "/", ".", ",", ":", ";", "=",
     "'", "\"", "-", "+", "!", "@", "|", "%", "*", "#", "&", "?", "$"}

IsWord(t) == t \notin NonWordTokens

\* The words of the model's texts that start with an upper-case letter and
\* are at least two characters long ([A-Z]\w+).
CapitalizedWords ==
    {"Button", "Card", "Modal", "Panel", "LoginForm", "UserService", "Foo",
     "LegacyWidget", "Widget", "Legacy", "Helper"}

UpperOf ==
    ("get" :> "GET") @@ ("post" :> "POST") @@ ("put" :> "PUT")
    @@ ("patch" :> "PATCH") @@ ("delete" :> "DELETE")

ToUpperTok(t) == IF t \in DOMAIN UpperOf THEN UpperOf[t] ELSE t

Quotes == {"'", "\""}

\* The first index from i on that holds no white space (\s*).
RECURSIVE SkipWs(_, _)
SkipWs(c, i) == IF i <= Len(c) /\ c[i] \in WhiteSpace THEN SkipWs(c, i + 1) ELSE i

\* (kw\s+)? at i: the index after it when it is there, i otherwise.
OptKw(c, i, kw) ==
    IF i + 1 <= Len(c) /\ c[i] = kw /\ c[i + 1] \in WhiteSpace
    THEN SkipWs(c, i + 1)
    ELSE i

\* (kw)\s+(\w+) at k, or (kw)\s+([A-Z]\w+) with capOnly.
KwWord(c, k, kws, capOnly) ==
    /\ k >= 1 /\ k + 1 <= Len(c)
    /\ c[k] \in kws
    /\ c[k + 1] \in WhiteSpace
    /\ LET j == SkipWs(c, k + 1)
       IN  j <= Len(c) /\ IsWord(c[j]) /\ (capOnly => c[j] \in CapitalizedWords)

\* content.match(/kw\s+(\w+)/): the word of the first place it matches.
FirstKwWord(c, kws, capOnly) ==
    IF \E k \in 1..Len(c) : KwWord(c, k, kws, capOnly)
    THEN LET k == CHOOSE k \in 1..Len(c) :
                     /\ KwWord(c, k, kws, capOnly)
                     /\ \A h \in 1..(k - 1) : ~KwWord(c, h, kws, capOnly)
         IN  << <<c[SkipWs(c, k + 1)]>> >>
    ELSE <<>>

\* /^(export\s+)?(async\s+)?function\s+(\w+)/
MatchFunction(c) ==
    IF KwWord(c, OptKw(c, OptKw(c, 1, "export"), "async"), {"function"}, FALSE)
    THEN FirstKwWord(c, {"function"}, FALSE)
    ELSE <<>>

\* /^(export\s+)?const\s+(\w+)\s*=\s*(\(.*\)|async)/
MatchArrow(c) ==
    LET k  == OptKw(c, 1, "export")
        ok == /\ KwWord(c, k, {"const"}, FALSE)
              /\ LET w  == SkipWs(c, k + 1)
                     eq == SkipWs(c, w + 1)
                     v  == SkipWs(c, eq + 1)
                 IN  /\ eq <= Len(c) /\ c[eq] = "="
                     /\ v <= Len(c)
                     /\ \/ c[v] = "async"
                        \/ c[v] = "(" /\ \E m \in (v + 1)..Len(c) : c[m] = ")"
    IN  IF ok THEN FirstKwWord(c, {"const"}, FALSE) ELSE <<>>

\* /^(export\s+)?class\s+(\w+)/
MatchClass(c) ==
    IF KwWord(c, OptKw(c, 1, "export"), {"class"}, FALSE)
    THEN FirstKwWord(c, {"class"}, FALSE)
    ELSE <<>>

IsJsxFile(file) == EndsWith(file, <<".", "tsx">>) \/ EndsWith(file, <<".", "jsx">>)

\* /^(export\s+)?(const|function)\s+([A-Z]\w+)/ in a .tsx or .jsx file
MatchComponent(file, c) ==
    IF IsJsxFile(file) /\ KwWord(c, OptKw(c, 1, "export"), {"const", "function"}, TRUE)
    THEN FirstKwWord(c, {"const", "function"}, TRUE)
    ELSE <<>>

\* /^import\s+.*from/, then the first path segment of the module named.
\* FromAt is /from\s+['"](.+)['"]/ at k: from, white space, a quote, and a
\* later quote with something between.
MatchImport(c) ==
    LET FromAt(k) ==
            /\ k + 1 <= Len(c) /\ c[k] = "from" /\ c[k + 1] \in WhiteSpace
            /\ LET q == SkipWs(c, k + 1)
               IN  q <= Len(c) /\ c[q] \in Quotes /\ \E e \in (q + 2)..Len(c) : c[e] \in Quotes
    IN
    IF /\ Len(c) >= 2 /\ c[1] = "import" /\ c[2] \in WhiteSpace
       /\ \E k \in 3..Len(c) : c[k] = "from"
       /\ \E k \in 1..Len(c) : FromAt(k)
    THEN LET k == CHOOSE k \in 1..Len(c) :
                     FromAt(k) /\ \A h \in 1..(k - 1) : ~FromAt(h)
             q == SkipWs(c, k + 1)
             e == CHOOSE e \in (q + 2)..Len(c) :
                     c[e] \in Quotes /\ \A h \in (e + 1)..Len(c) : c[h] \notin Quotes
             path == SubSeq(c, q + 1, e - 1)
             cut  == IF \E i \in 1..Len(path) : path[i] = "/"
                     THEN CHOOSE i \in 1..Len(path) :
                              path[i] = "/" /\ \A h \in 1..(i - 1) : path[h] # "/"
                     ELSE Len(path) + 1
             pkg  == SubSeq(path, 1, cut - 1)
         IN  IF StartsWith(pkg, <<".">>) THEN <<>> ELSE <<pkg>>
    ELSE <<>>

\* file.file.match(/config|\.json$|\.yaml$|\.env/), and /['"'](\w+)['"']\s*:/
\* at k.
MatchConfigKey(file, c) ==
    LET IsConfigFile ==
            \/ Includes(file, <<"config">>)
            \/ EndsWith(file, <<".", "json">>)
            \/ EndsWith(file, <<".", "yaml">>)
            \/ Includes(file, <<".", "env">>)
        QuotedKeyAt(k) ==
            /\ k + 3 <= Len(c)
            /\ c[k] \in Quotes /\ IsWord(c[k + 1]) /\ c[k + 2] \in Quotes
            /\ LET j == SkipWs(c, k + 3) IN j <= Len(c) /\ c[j] = ":"
    IN
    IF IsConfigFile /\ \E k \in 1..Len(c) : QuotedKeyAt(k)
    THEN LET k == CHOOSE k \in 1..Len(c) :
                     QuotedKeyAt(k) /\ \A h \in 1..(k - 1) : ~QuotedKeyAt(h)
         IN  << <<c[k + 1]>> >>
    ELSE <<>>

\* /<([A-Z]\w+)/ at k, in a .tsx or .jsx file
MatchUiTag(file, c) ==
    LET TagAt(k) == k + 1 <= Len(c) /\ c[k] = "<" /\ c[k + 1] \in CapitalizedWords
    IN
    IF IsJsxFile(file) /\ \E k \in 1..Len(c) : TagAt(k)
    THEN LET k == CHOOSE k \in 1..Len(c) :
                     TagAt(k) /\ \A h \in 1..(k - 1) : ~TagAt(h)
         IN  << <<c[k + 1]>> >>
    ELSE <<>>

\* file.file.match(/route\.|api\//), and /\.(get|post|put|patch|delete)\(/i
\* at k.
MatchApiVerb(file, c) ==
    LET IsRouteFile == Includes(file, <<"route", ".">>) \/ Includes(file, <<"api", "/">>)
        VerbAt(k) ==
            /\ k + 2 <= Len(c)
            /\ c[k] = "." /\ ToLowerTok(c[k + 1]) \in DOMAIN UpperOf /\ c[k + 2] = "("
    IN
    IF IsRouteFile /\ \E k \in 1..Len(c) : VerbAt(k)
    THEN LET k == CHOOSE k \in 1..Len(c) :
                     VerbAt(k) /\ \A h \in 1..(k - 1) : ~VerbAt(h)
         IN  << <<ToUpperTok(ToLowerTok(c[k + 1]))>> >>
    ELSE <<>>

NoSignals ==
    [newFunctions |-> <<>>, newClasses |-> <<>>, newComponents |-> <<>>,
     newImports |-> <<>>, configChanges |-> <<>>, uiChanges |-> <<>>,
     apiChanges |-> <<>>]

\* The body of lines.forEach: what one diff line of a file pushes.
ScanDiffLine(acc, file, line) ==
    IF ~StartsWith(line, <<"+">>) THEN acc
    ELSE LET content == Trim(SubSeq(line, 2, Len(line)))
         IN  [newFunctions  |-> acc.newFunctions \o MatchFunction(content)
                                                 \o MatchArrow(content),
              newClasses    |-> acc.newClasses \o MatchClass(content),
              newComponents |-> acc.newComponents \o MatchComponent(file, content),
              newImports    |-> acc.newImports \o MatchImport(content),
              configChanges |-> acc.configChanges \o MatchConfigKey(file, content),
              uiChanges     |-> acc.uiChanges \o MatchUiTag(file, content),
              apiChanges    |-> acc.apiChanges \o MatchApiVerb(file, content)]

\* lines.forEach over the lines of one diff. The arrays are compared before
\* the next line so that TLC computes them here, line by line, and not all
\* at once after the last line.
RECURSIVE ScanDiffLines(_, _, _, _)
ScanDiffLines(acc, file, lines, i) ==
    IF i > Len(lines) THEN acc
    ELSE LET pushed == ScanDiffLine(acc, file, lines[i])
         IN  IF pushed = acc
             THEN ScanDiffLines(acc, file, lines, i + 1)
             ELSE ScanDiffLines(pushed, file, lines, i + 1)

RECURSIVE ScanDiffs(_, _, _)
ScanDiffs(acc, files, i) ==
    IF i > Len(files) THEN acc
    ELSE ScanDiffs(ScanDiffLines(acc, files[i].file, SplitLines(files[i].diff), 1),
                   files, i + 1)

\* Mutant: the array as it was filled, duplicates included.
Unique_asFilled(xs) == xs

\* [...new Set(xs)]: the first occurrence of each member, in order.
RECURSIVE Unique(_)
Unique(xs) ==
    IF xs = <<>> THEN <<>>
    ELSE LET init == Unique(SubSeq(xs, 1, Len(xs) - 1))
             last == xs[Len(xs)]
         IN  IF \E i \in 1..Len(init) : init[i] = last THEN init ELSE Append(init, last)

\* xs.slice(0, n)
Slice(xs, n) == SubSeq(xs, 1, Min(n, Len(xs)))

Plural(n, suffix) == IF n > 1 THEN suffix ELSE <<>>

mainPurposeOf(sig) ==
    IF Len(sig.newComponents) > 3
    THEN <<"implementing", " ", ToString(Len(sig.newComponents)), " ", "new", " ",
           "UI", " ", "component", "s">>
    ELSE IF Len(sig.newComponents) > 0
    THEN <<"adding", " ">> \o Join(Slice(sig.newComponents, 3), <<",", " ">>)
         \o <<" ", "component">> \o Plural(Len(sig.newComponents), <<"s">>)
    ELSE IF Len(sig.newFunctions) > 5
    THEN <<"implementing", " ", "multiple", " ", "utility", " ", "functions", " ",
           "and", " ", "helpers">>
    ELSE IF Len(sig.newFunctions) > 0
    THEN <<"adding", " ">> \o Join(Slice(sig.newFunctions, 3), <<",", " ">>)
         \o <<" ", "function">> \o Plural(Len(sig.newFunctions), <<"s">>)
    ELSE IF Len(sig.newClasses) > 0
    THEN <<"implementing", " ">> \o Join(sig.newClasses, <<",", " ">>)
         \o <<" ", "class">> \o Plural(Len(sig.newClasses), <<"es">>)
    ELSE IF Len(sig.apiChanges) > 0
    THEN <<"adding", " ">> \o Join(Unique(sig.apiChanges), <<",", " ">>)
         \o <<" ", "API", " ", "endpoint">> \o Plural(Len(sig.apiChanges), <<"s">>)
    ELSE IF Len(sig.uiChanges) > 5
    THEN <<"enhancing", " ", "UI", " ", "with", " ", "multiple", " ", "component",
           " ", "updates">>
    ELSE IF Len(sig.configChanges) > 0
    THEN <<"updating", " ", "configuration", " ", "settings">>
    ELSE IF Len(sig.newImports) > 0
    THEN <<"integrating", " ">>
         \o Join(Slice(Unique(sig.newImports), 2), <<" ", "and", " ">>)
         \o <<" ">>
         \o (IF Len(Unique(sig.newImports)) > 2 THEN <<"and", " ", "other", " ">> ELSE <<>>)
         \o <<"dependencies">>
    ELSE <<>>

analyzeDiffsInDepth(changes) ==
    LET sig == ScanDiffs(NoSignals, changes.files, 1)
    IN  [newFunctions   |-> Slice(Unique(sig.newFunctions), 5),
         newClasses     |-> Slice(Unique(sig.newClasses), 3),
         newComponents  |-> Slice(Unique(sig.newComponents), 5),
         newImports     |-> Slice(Unique(sig.newImports), 5),
         modifiedFunctions |-> <<>>,
         configChanges  |-> Slice(Unique(sig.configChanges), 5),
         uiChanges      |-> Slice(Unique(sig.uiChanges), 10),
         apiChanges     |-> Unique(sig.apiChanges),
         mainPurpose    |-> mainPurposeOf(sig)]

----------------------------------------------------------------------------
(* generateSmartScope *)

\* The length of a token, up to four: the words of one, two and three
\* characters that the model's texts use are listed, every other word has
\* four characters or more.
CharCount(t) ==
    LET OneCharWords   == {"a", "b", "d", "s", "x", "y"}
        TwoCharWords   == {"ts", "js", "md", "ui", "ci", "db", "v2"}
        ThreeCharWords == {"src", "lib", "api", "cli", "tsx", "jsx", "css", "map", "old",
                           "app", "fix", "Foo", "env", "new"}
    IN  IF t \in NonWordTokens \cup OneCharWords THEN 1
        ELSE IF t \in TwoCharWords THEN 2
        ELSE IF t \in ThreeCharWords THEN 3
        ELSE 4

\* s.length, exact below four and at least four otherwise.
RECURSIVE Length(_)
Length(s) == IF s = <<>> THEN 0 ELSE Min(4, CharCount(Head(s)) + Length(Tail(s)))

\* path.split('/')
RECURSIVE SplitPath(_)
SplitPath(s) ==
    IF \A i \in 1..Len(s) : s[i] # "/"
    THEN <<s>>
    ELSE LET k == CHOOSE i \in 1..Len(s) :
                      s[i] = "/" /\ \A j \in 1..(i - 1) : s[j] # "/"
         IN  <<SubSeq(s, 1, k - 1)>> \o SplitPath(SubSeq(s, k + 1, Len(s)))

\* path.split('/').pop()
BaseName(file) == LET parts == SplitPath(file) IN parts[Len(parts)]

Count(xs, x) == Cardinality({i \in 1..Len(xs) : xs[i] = x})

\* The property names that are array indices, with their values: for...in
\* visits these first, in ascending order, and then the other names in the
\* order of their insertion.
IndexKeys == (<<"2024">> :> 2024) @@ (<<"2025">> :> 2025)

\* The names of xs that are array indices, in ascending order.
RECURSIVE SortIndexKeys(_)
SortIndexKeys(ks) ==
    IF ks = {} THEN <<>>
    ELSE LET m == CHOOSE k \in ks : \A o \in ks : IndexKeys[k] <= IndexKeys[o]
         IN  <<m>> \o SortIndexKeys(ks \ {m})

\* for (const str in counts)
KeyOrder(strings) ==
    LET keys == Unique(strings)
        NotIndex(k) == k \notin DOMAIN IndexKeys
    IN  SortIndexKeys({keys[i] : i \in 1..Len(keys)} \cap DOMAIN IndexKeys)
        \o SelectSeq(keys, NotIndex)

\* Mutant: a later key replaces the one held with an equal count as well.
RECURSIVE MostCommonLoop_lastWins(_, _, _, _, _)
MostCommonLoop_lastWins(strings, keys, i, maxCount, mostCommon) ==
    IF i > Len(keys) THEN mostCommon
    ELSE IF Count(strings, keys[i]) >= maxCount
    THEN MostCommonLoop_lastWins(strings, keys, i + 1, Count(strings, keys[i]), keys[i])
    ELSE MostCommonLoop_lastWins(strings, keys, i + 1, maxCount, mostCommon)

\* The loop of findMostCommon over the keys: a later key replaces the one
\* held only with a strictly larger count.
RECURSIVE MostCommonLoop(_, _, _, _, _)
MostCommonLoop(strings, keys, i, maxCount, mostCommon) ==
    IF i > Len(keys) THEN mostCommon
    ELSE IF Count(strings, keys[i]) > maxCount
    THEN MostCommonLoop(strings, keys, i + 1, Count(strings, keys[i]), keys[i])
    ELSE MostCommonLoop(strings, keys, i + 1, maxCount, mostCommon)

findMostCommon(strings) ==
    LET mostCommon == MostCommonLoop(strings, KeyOrder(strings), 1, 0, <<>>)
    IN  IF mostCommon # <<>> THEN mostCommon ELSE Null

\* The parent directory of every file that has one.
RECURSIVE ParentDirectories(_, _)
ParentDirectories(files, i) ==
    IF i > Len(files) THEN <<>>
    ELSE LET parts == SplitPath(files[i].file)
         IN  (IF Len(parts) > 1 THEN <<parts[Len(parts) - 1]>> ELSE <<>>)
             \o ParentDirectories(files, i + 1)

\* Mutant: the parent directory of the first file that has one.
generateSmartScope_firstParent(changes, analysis) ==
    LET dirs == ParentDirectories(changes.files, 1)
    IN  IF dirs # <<>> THEN dirs[1] ELSE Null

generateSmartScope(changes, analysis) ==
    IF analysis.category = "API" THEN <<"api">>
    ELSE IF analysis.category = "components" THEN <<"ui">>
    ELSE IF analysis.category = "testing" THEN <<"tests">>
    ELSE IF analysis.category = "cli" THEN <<"cli">>
    ELSE IF analysis.category = "build" THEN <<"build">>
    ELSE LET commonDir == findMostCommon(ParentDirectories(changes.files, 1))
             IsLibFile(f) == \/ Includes(f.file, <<"/", "lib", "/">>)
                             \/ StartsWith(f.file, <<"lib", "/">>)
             libFiles  == Len(SelectSeq(changes.files, IsLibFile))
         IN  IF /\ Truthy(commonDir) /\ Length(commonDir) > 1
                /\ commonDir # <<"src">> /\ commonDir # <<"lib">>
             THEN commonDir
             ELSE IF 10 * libFiles > 6 * Len(changes.files) THEN <<"lib">>
             ELSE Null

----------------------------------------------------------------------------
(* generateSmartSubject *)

StripSuffix(s, suffix) ==
    IF EndsWith(s, suffix) THEN SubSeq(s, 1, Len(s) - Len(suffix)) ELSE s

SubjectExtensions == {"ts", "tsx", "js", "jsx", "md"}

WordExtensions == {"ts", "tsx", "js", "jsx", "md", "css", "scss", "map", "json"}

\* name.replace(/\.(e1|e2|...)$/, '')
StripExtension(name, exts) ==
    IF Len(name) >= 2 /\ name[Len(name) - 1] = "." /\ name[Len(name)] \in exts
    THEN SubSeq(name, 1, Len(name) - 2)
    ELSE name

\* A word starts with an upper-case letter (/^[A-Z]/).
StartsUpper(word) == word # <<>> /\ word[1] \in DOMAIN LowerOf

\* The index after the run of word tokens that starts at i.
RECURSIVE WordEnd(_, _)
WordEnd(s, i) == IF i <= Len(s) /\ IsWord(s[i]) THEN WordEnd(s, i + 1) ELSE i

\* name.split(/[^a-zA-Z0-9]+/) without the empty pieces: the maximal runs of
\* word tokens. File names of the model hold no underscore.
RECURSIVE WordRuns(_)
WordRuns(s) ==
    IF s = <<>> THEN <<>>
    ELSE IF ~IsWord(Head(s)) THEN WordRuns(Tail(s))
    ELSE LET e == WordEnd(s, 1)
         IN  <<SubSeq(s, 1, e - 1)>> \o WordRuns(SubSeq(s, e, Len(s)))

\* The words one file name contributes: its base name without extensions,
\* split, words of more than two characters only.
WordsOfFile(fileName) ==
    LET base      == IF BaseName(fileName) # <<>> THEN BaseName(fileName) ELSE fileName
        cleanName == StripExtension(
                         StripSuffix(StripSuffix(base, <<".", "d", ".", "ts">>), <<".", "js", ".", "map">>),
                         WordExtensions)
        Long(w)   == Length(w) > 2
    IN  SelectSeq(WordRuns(cleanName), Long)

RECURSIVE AllWords(_)
AllWords(fileNames) ==
    IF fileNames = <<>> THEN <<>>
    ELSE WordsOfFile(Head(fileNames)) \o AllWords(Tail(fileNames))

\* The count allWords holds for a word once the camelCase counts are merged.
WordWeight(occurrences, word) ==
    Count(occurrences, word)
    + (IF StartsUpper(word) /\ Length(word) > 3 THEN 2 * Count(occurrences, word) ELSE 0)

\* /^[A-Z][a-zA-Z0-9]+$/
IsPascal(word) == StartsUpper(word) /\ Length(word) >= 2

\* The comparator of the sort is negative for (a, b).
WordBefore(occurrences, a, b) ==
    \/ IsPascal(a) /\ ~IsPascal(b)
    \/ /\ IsPascal(a) = IsPascal(b)
       /\ WordWeight(occurrences, a) > WordWeight(occurrences, b)

\* Array.prototype.sort is stable: of the words no other word comes before,
\* the first in the array is next.
RECURSIVE SortWords(_, _)
SortWords(occurrences, words) ==
    IF words = <<>> THEN <<>>
    ELSE LET i == CHOOSE i \in 1..Len(words) :
                      /\ \A j \in 1..Len(words) : ~WordBefore(occurrences, words[j], words[i])
                      /\ \A h \in 1..(i - 1) :
                            \E j \in 1..Len(words) : WordBefore(occurrences, words[j], words[h])
         IN  <<words[i]>>
             \o SortWords(occurrences,
                          SubSeq(words, 1, i - 1) \o SubSeq(words, i + 1, Len(words)))

\* Math.ceil(n * 0.3)
CeilThreeTenths(n) == (3 * n + 9) \div 10

findCommonWords(fileNames) ==
    LET occurrences == AllWords(fileNames)
        threshold   == IF CeilThreeTenths(Len(fileNames)) > 2
                       THEN CeilThreeTenths(Len(fileNames)) ELSE 2
        Enough(w)   == WordWeight(occurrences, w) >= threshold
    IN  SortWords(occurrences, SelectSeq(Unique(occurrences), Enough))

\* The first of the shortest split paths (reduce keeps the earlier on a tie).
ShortestPath(pathParts) ==
    pathParts[CHOOSE i \in 1..Len(pathParts) :
                 /\ \A j \in 1..Len(pathParts) : Len(pathParts[i]) <= Len(pathParts[j])
                 /\ \A h \in 1..(i - 1) : Len(pathParts[h]) > Len(pathParts[i])]

RECURSIVE CommonParts(_, _, _)
CommonParts(pathParts, shortestPath, i) ==
    IF i > Len(shortestPath) - 1 THEN <<>>
    ELSE IF \A k \in 1..Len(pathParts) : pathParts[k][i] = shortestPath[i]
    THEN <<shortestPath[i]>> \o CommonParts(pathParts, shortestPath, i + 1)
    ELSE <<>>

\* null is the empty sequence here: the caller reads only the length and the
\* last part.
findCommonPath(filePaths) ==
    IF filePaths = <<>> THEN <<>>
    ELSE LET pathParts == [i \in 1..Len(filePaths) |-> SplitPath(filePaths[i])]
         IN  CommonParts(pathParts, ShortestPath(pathParts), 1)

\* The patterns of analyzeDeletedFiles, tested on the lower-cased name (the
\* i flag), with the description of each.
DeletedPattern(k, f) ==
    LET lf == ToLowerCase(f)
    IN  CASE k = 1 -> Includes(lf, <<".", "test", ".">>) \/ Includes(lf, <<".", "spec", ".">>)
          [] k = 2 -> EndsWith(lf, <<".", "md">>)
          [] k = 3 -> Includes(lf, <<"component">>)
          [] k = 4 -> \/ Includes(lf, <<"backup">>) \/ Includes(lf, <<"old">>)
                      \/ Includes(lf, <<"deprecated">>) \/ Includes(lf, <<"unused">>)
          [] k = 5 -> EndsWith(lf, <<".", "css">>) \/ EndsWith(lf, <<".", "scss">>)
          [] k = 6 -> Includes(lf, <<"config">>)

DeletedDescription ==
    << <<"remove", " ", "test", " ", "files">>, <<"remove", " ", "documentation", " ", "files">>,
       <<"remove", " ", "deprecated", " ", "components">>, <<"remove", " ", "deprecated", " ", "files">>,
       <<"remove", " ", "style", " ", "files">>, <<"remove", " ", "configuration", " ", "files">> >>

FileNames(files) == [i \in 1..Len(files) |-> files[i].file]

analyzeDeletedFiles(deletedFiles) ==
    LET fileNames   == FileNames(deletedFiles)
        commonWords == findCommonWords(fileNames)
        commonPaths == findCommonPath(fileNames)
        IsSource(f) == ~EndsWith(f, <<".", "d", ".", "ts">>) /\ ~EndsWith(f, <<".", "map">>)
        nonGeneratedFiles == SelectSeq(fileNames, IsSource)
        Majority(k) ==
            /\ 2 * Cardinality({i \in 1..Len(nonGeneratedFiles) :
                                   DeletedPattern(k, nonGeneratedFiles[i])})
                 > Len(nonGeneratedFiles)
            /\ Len(nonGeneratedFiles) > 0
    IN  IF commonWords # <<>> /\ Length(commonWords[1]) > 3
        THEN LET mainWord     == commonWords[1]
                 isPascalCase == StartsUpper(mainWord)
                 isClass      == \E i \in 1..Len(fileNames) :
                                    \/ Includes(fileNames[i], <<".", "d", ".", "ts">>)
                                    \/ Includes(fileNames[i], <<"class">>)
             IN  IF isPascalCase /\ isClass
                 THEN <<"remove", " ", "deprecated", " ">> \o mainWord \o <<" ", "class", " ", "and", " ", "related", " ", "assets">>
                 ELSE IF isPascalCase
                 THEN <<"remove", " ">> \o mainWord \o <<" ", "component", " ", "and", " ", "related", " ", "files">>
                 ELSE <<"remove", " ">> \o mainWord \o <<"-", "related", " ", "files", " ", "and", " ", "assets">>
        ELSE IF Len(commonPaths) > 1
        THEN <<"remove", " ">> \o commonPaths[Len(commonPaths)] \o <<" ", "module", " ", "and", " ", "related", " ", "files">>
        ELSE IF \E k \in 1..6 : Majority(k)
        THEN DeletedDescription[CHOOSE k \in 1..6 :
                                   Majority(k) /\ \A h \in 1..(k - 1) : ~Majority(h)]
             \o <<" ", "and", " ", "generated", " ", "assets">>
        ELSE <<"remove", " ", "unused", " ", "files", " ", "(">> \o <<ToString(Len(deletedFiles))>> \o <<" ", "files", ")">>

HasStatus(files, status) ==
    LET Is(f) == f.status = status IN SelectSeq(files, Is)

\* Mutant: the subject of a single file, whatever the number of files.
generateSmartSubject_firstFile(changes, analysis, diffAnalysis) ==
    LET file == changes.files[1]
    IN  IF diffAnalysis.mainPurpose # <<>> THEN diffAnalysis.mainPurpose
        ELSE IF file.status = "A" THEN <<"add", " ">> \o BaseName(file.file)
        ELSE IF file.status = "D" THEN <<"remove", " ">> \o BaseName(file.file)
        ELSE <<"update", " ">> \o BaseName(file.file)

generateSmartSubject(changes, analysis, diffAnalysis) ==
    LET files     == changes.files
        fileCount == Len(files)
        count     == <<ToString(fileCount)>>
    IN  IF fileCount = 1
        THEN LET file     == files[1]
                 stripped == StripExtension(BaseName(file.file), SubjectExtensions)
                 fileName == IF stripped # <<>> THEN stripped ELSE file.file
             IN  IF diffAnalysis.mainPurpose # <<>> THEN diffAnalysis.mainPurpose
                 ELSE IF file.status = "A" THEN <<"add", " ">> \o fileName
                 ELSE IF file.status = "D" THEN <<"remove", " ">> \o fileName
                 ELSE <<"update", " ">> \o fileName
        ELSE IF 10 * Len(HasStatus(files, "D")) > 7 * fileCount
        THEN analyzeDeletedFiles(HasStatus(files, "D"))
        ELSE IF diffAnalysis.mainPurpose # <<>> THEN diffAnalysis.mainPurpose
        ELSE IF analysis.category = "documentation"
        THEN <<"update", " ", "documentation", " ", "(">> \o count \o <<" ", "files", ")">>
        ELSE IF analysis.category = "testing"
        THEN <<"update", " ", "tests", " ", "(">> \o count \o <<" ", "files", ")">>
        ELSE IF analysis.category = "configuration"
        THEN <<"update", " ", "configuration", " ", "files">>
        ELSE IF analysis.category = "API"
        THEN <<"update", " ", "API", " ", "endpoints", " ", "and", " ", "handlers">>
        ELSE IF analysis.category = "components"
        THEN <<"update", " ", "UI", " ", "components", " ", "(">> \o count \o <<" ", "files", ")">>
        ELSE IF analysis.category = "styling"
        THEN <<"update", " ", "styles", " ", "and", " ", "formatting">>
        ELSE IF SumAdditions(files) > SumDeletions(files) * 2
        THEN <<"add", " ", "new", " ", "functionality", " ", "(">> \o count \o <<" ", "files", ")">>
        ELSE IF SumDeletions(files) > SumAdditions(files) * 2
        THEN <<"refactor", " ", "and", " ", "cleanup", " ", "(">> \o count \o <<" ", "files", ")">>
        ELSE <<"update", " ", "multiple", " ", "files", " ", "(">> \o count \o <<" ", "changes", ")">>

----------------------------------------------------------------------------
(* generateSmartBody and generateFallbackSuggestions *)

\* The character ` of the body texts.
BackTick == "<backtick>"

\* names.slice(0, 3).join(', ') and the suffix for the names left out.
FirstThree(names) == Join(Slice(names, 3), <<",", " ">>)

\* Mutant: no suffix for the names left out.
AndMore_never(names, suffix) == <<>>

AndMore(names, suffix) ==
    IF Len(names) > 3 THEN <<" ", "and", " ">> \o <<ToString(Len(names) - 3)>> \o suffix ELSE <<>>

BaseNames(files) == [i \in 1..Len(files) |-> BaseName(files[i].file)]

Counted(n, noun) == <<ToString(n)>> \o noun \o Plural(n, <<"s">>)

analyzeDeletedFilesForBody(deletedFiles) ==
    LET fileNames   == FileNames(deletedFiles)
        IsTypeDefinition(f) == EndsWith(f, <<".", "d", ".", "ts">>)
        IsSourceMap(f)      == EndsWith(f, <<".", "map">>)
        IsJs(f)   == /\ Len(f) >= 2 /\ f[Len(f) - 1] = "."
                     /\ f[Len(f)] \in {"js", "ts", "tsx", "jsx"}
                     /\ ~EndsWith(f, <<".", "d", ".", "ts">>)
        IsDoc(f)  == EndsWith(f, <<".", "md">>)
        IsTest(f) == Includes(f, <<".", "test", ".">>) \/ Includes(f, <<".", "spec", ".">>)
        typeDefinitions == SelectSeq(fileNames, IsTypeDefinition)
        sourceMaps      == SelectSeq(fileNames, IsSourceMap)
        jsFiles         == SelectSeq(fileNames, IsJs)
        docFiles        == SelectSeq(fileNames, IsDoc)
        testFiles       == SelectSeq(fileNames, IsTest)
        commonWords     == findCommonWords(fileNames)
    IN  IF commonWords # <<>> /\ Length(commonWords[1]) > 3
        THEN LET mainEntity   == commonWords[1]
                 isPascalCase == StartsUpper(mainEntity)
                 isClass      == \E i \in 1..Len(fileNames) :
                                    Includes(fileNames[i], <<".", "d", ".", "ts">>)
                 fileTypes ==
                     Join((IF jsFiles # <<>> THEN << <<".", "js", "/", ".", "ts">> >> ELSE <<>>)
                          \o (IF typeDefinitions # <<>> THEN << <<".", "d", ".", "ts">> >> ELSE <<>>)
                          \o (IF sourceMaps # <<>> THEN << <<"source", " ", "maps">> >> ELSE <<>>),
                          <<",", " ">>)
             IN  << IF isPascalCase /\ isClass
                    THEN <<"-", " ", "Removed", " ", "the", " ", "unused", " ">> \o <<BackTick>> \o mainEntity
                         \o <<BackTick>> \o <<" ", "class", " ", "and", " ", "its", " ", "corresponding", " ">>
                         \o fileTypes \o <<" ", "files">>
                    ELSE IF isPascalCase
                    THEN <<"-", " ", "Removed", " ", "the", " ">> \o <<BackTick>> \o mainEntity
                         \o <<BackTick>> \o <<" ", "component", " ", "and", " ", "its", " ", "associated", " ">>
                         \o fileTypes \o <<" ", "files">>
                    ELSE <<"-", " ", "Removed", " ">> \o mainEntity
                         \o <<"-", "related", " ", "implementation", " ", "files", " ", "(">> \o fileTypes \o <<")">> >>
                 \o (IF typeDefinitions # <<>> \/ sourceMaps # <<>>
                     THEN << <<"-", " ", "Cleaned", " ", "up", " ", "associated", " ", "imports", " ", "and", " ", "dependencies", " ", "related", " ", "to", " ", "the", " ", "removed", " ", "functionality">> >>
                     ELSE <<>>)
                 \o (IF docFiles # <<>>
                     THEN << <<"-", " ", "Removed", " ", "documentation", " ", "files", " ", "for", " ", "the", " ", "deprecated", " ">>
                             \o mainEntity \o <<" ", "functionality">> >>
                     ELSE <<>>)
        ELSE LET descriptions ==
                     (IF jsFiles # <<>>
                      THEN <<Counted(Len(jsFiles), <<" ", "source", " ", "file">>)>> ELSE <<>>)
                     \o (IF typeDefinitions # <<>>
                         THEN <<Counted(Len(typeDefinitions), <<" ", "type", " ", "definition">>)>>
                         ELSE <<>>)
                     \o (IF sourceMaps # <<>>
                         THEN <<Counted(Len(sourceMaps), <<" ", "source", " ", "map">>)>> ELSE <<>>)
             IN  (IF descriptions # <<>>
                  THEN << <<"-", " ", "Removed", " ", "unused", " ", "files", ":", " ">> \o Join(descriptions, <<",", " ">>) >>
                  ELSE <<>>)
                 \o (IF docFiles # <<>>
                     THEN << <<"-", " ", "Cleaned", " ", "up", " ">>
                             \o Counted(Len(docFiles), <<" ", "documentation", " ", "file">>) >>
                     ELSE <<>>)
                 \o (IF testFiles # <<>>
                     THEN << <<"-", " ", "Removed", " ">> \o Counted(Len(testFiles), <<" ", "test", " ", "file">>) >>
                     ELSE <<>>)

generateWhyItMatters(category, diffAnalysis) ==
    IF category = "components" \/ diffAnalysis.newComponents # <<>>
    THEN <<"Type", ":", " ", "feat", " ", "|", " ", "Confidence", ":", " ", "85", "%">>
    ELSE IF category = "API" \/ diffAnalysis.apiChanges # <<>>
    THEN <<"Type", ":", " ", "feat", " ", "|", " ", "Confidence", ":", " ", "90", "%">>
    ELSE IF category = "testing" THEN <<"Type", ":", " ", "test", " ", "|", " ", "Confidence", ":", " ", "95", "%">>
    ELSE IF category = "documentation" THEN <<"Type", ":", " ", "docs", " ", "|", " ", "Confidence", ":", " ", "95", "%">>
    ELSE IF category = "configuration" THEN <<"Type", ":", " ", "chore", " ", "|", " ", "Confidence", ":", " ", "90", "%">>
    ELSE IF diffAnalysis.newClasses # <<>> \/ diffAnalysis.newFunctions # <<>>
    THEN <<"Type", ":", " ", "feat", " ", "|", " ", "Confidence", ":", " ", "85", "%">>
    ELSE <<>>

\* The bullets for the signals found in the diffs.
SignalBullets(d) ==
    (IF d.newComponents # <<>>
     THEN << <<"-", " ", "Implemented", " ", "new", " ", "components", ":", " ">> \o FirstThree(d.newComponents)
             \o AndMore(d.newComponents, <<" ", "more">>) >>
     ELSE <<>>)
    \o (IF d.newClasses # <<>>
        THEN << <<"-", " ", "Added", " ">> \o Join(d.newClasses, <<",", " ">>) \o <<" ", "class">>
                \o Plural(Len(d.newClasses), <<"es">>)
                \o <<" ", "for", " ", "improved", " ", "architecture">> >>
        ELSE <<>>)
    \o (IF d.newFunctions # <<>> /\ d.newComponents = <<>>
        THEN << <<"-", " ", "Implemented", " ", "helper", " ", "functions", ":", " ">> \o FirstThree(d.newFunctions)
                \o AndMore(d.newFunctions, <<" ", "more", " ", "utilities">>) >>
        ELSE <<>>)
    \o (IF d.newImports # <<>>
        THEN << <<"-", " ", "Integrated", " ", "new", " ", "dependencies", ":", " ">> \o FirstThree(d.newImports)
                \o AndMore(d.newImports, <<" ", "others">>) >>
        ELSE <<>>)
    \o (IF d.configChanges # <<>>
        THEN << <<"-", " ", "Updated", " ", "configuration", " ", "settings", " ", "for", " ">> \o FirstThree(d.configChanges) >>
        ELSE <<>>)
    \o (IF d.apiChanges # <<>>
        THEN << <<"-", " ", "Added", " ">> \o Join(d.apiChanges, <<",", " ">>) \o <<" ", "API", " ", "endpoint">>
                \o Plural(Len(d.apiChanges), <<"s">>) >>
        ELSE <<>>)
    \o (IF Len(d.uiChanges) > 5 /\ d.newComponents = <<>>
        THEN << <<"-", " ", "Enhanced", " ", "UI", " ", "with", " ">> \o <<ToString(Len(d.uiChanges))>>
                \o <<" ", "component", " ", "updates">> >>
        ELSE <<>>)

\* The bullets that describe the files when the diffs gave no signal.
FileBullets(added, modified, deleted) ==
    (IF deleted # <<>>
     THEN IF analyzeDeletedFilesForBody(deleted) # <<>>
          THEN analyzeDeletedFilesForBody(deleted)
          ELSE IF Len(deleted) <= 3
          THEN << <<"-", " ", "Removed", ":", " ">> \o Join(BaseNames(deleted), <<",", " ">>) >>
          ELSE << <<"-", " ", "Removed", " ">> \o <<ToString(Len(deleted))>> \o <<" ", "files">> >>
     ELSE <<>>)
    \o (IF added # <<>>
        THEN IF Len(added) <= 3
             THEN << <<"-", " ", "Added", ":", " ">> \o Join(BaseNames(added), <<",", " ">>) >>
             ELSE << <<"-", " ", "Added", " ">> \o <<ToString(Len(added))>> \o <<" ", "new", " ", "files">> >>
        ELSE <<>>)
    \o (IF modified # <<>>
        THEN IF Len(modified) <= 3
             THEN << <<"-", " ", "Modified", ":", " ">> \o Join(BaseNames(modified), <<",", " ">>) >>
             ELSE << <<"-", " ", "Modified", " ">> \o <<ToString(Len(modified))>>
                     \o <<" ", "existing", " ", "files">> >>
        ELSE <<>>)

\* The summary line that follows the signal bullets.
FilesSummary(added, modified, deleted) ==
    LET fileParts ==
            (IF added # <<>> THEN << <<ToString(Len(added))>> \o <<" ", "added">> >> ELSE <<>>)
            \o (IF modified # <<>>
                THEN << <<ToString(Len(modified))>> \o <<" ", "modified">> >> ELSE <<>>)
            \o (IF deleted # <<>>
                THEN << <<ToString(Len(deleted))>> \o <<" ", "deleted">> >> ELSE <<>>)
    IN  IF fileParts # <<>>
        THEN << <<"-", " ", "Files", ":", " ">> \o Join(fileParts, <<",", " ">>) >>
        ELSE <<>>

generateSmartBody(changes, analysis, diffAnalysis) ==
    IF Len(changes.files) <= 1 THEN Null
    ELSE LET added    == HasStatus(changes.files, "A")
             modified == HasStatus(changes.files, "M")
             deleted  == HasStatus(changes.files, "D")
             signals  == SignalBullets(diffAnalysis)
             whyItMatters == generateWhyItMatters(analysis.category, diffAnalysis)
             bullets  ==
                 (IF signals = <<>>
                  THEN FileBullets(added, modified, deleted)
                  ELSE signals \o FilesSummary(added, modified, deleted))
                 \o << <<"-", " ", "Total", ":", " ", "+">> \o <<ToString(SumAdditions(changes.files))>>
                       \o <<" ", "-">> \o <<ToString(SumDeletions(changes.files))>>
                       \o <<" ", "lines">> >>
                 \o (IF whyItMatters # <<>>
                     THEN << <<NL>> \o <<" ", " ", " ">> \o whyItMatters >>
                     ELSE <<>>)
         IN  Join(bullets, <<NL>>)

HeuristicConfidence == 85

\* the suggestion object literal of generateFallbackSuggestions
HeuristicSuggestion(type, scope, subject, body) ==
    [type        |-> type,
     scope       |-> scope,
     subject     |-> subject,
     body        |-> body,
     breaking    |-> FALSE,
     fullMessage |-> <<type>>
                     \o (IF Truthy(scope) THEN <<"(">> \o scope \o <<")">> ELSE <<>>)
                     \o <<":", " ">> \o subject
                     \o (IF Truthy(body) THEN <<NL, NL>> \o body ELSE <<>>),
     confidence  |-> HeuristicConfidence]

SuggestionFrom(changes, analysis, diffAnalysis) ==
    HeuristicSuggestion(analysis.type,
                        generateSmartScope(changes, analysis),
                        generateSmartSubject(changes, analysis, diffAnalysis),
                        generateSmartBody(changes, analysis, diffAnalysis))

generateFallbackSuggestions(changes) ==
    << SuggestionFrom(changes, analyzeChangesForFallback(changes), analyzeDiffsInDepth(changes)) >>

----------------------------------------------------------------------------
(* buildPrompt *)

identifyFilePatterns(files) ==
    LET IsDoc(f)       == EndsWith(f.file, <<".", "md">>)
        IsTest(f)      == Includes(f.file, <<".", "test", ".">>) \/ Includes(f.file, <<".", "spec", ".">>)
        IsConfig(f)    == \/ Includes(f.file, <<"config">>) \/ Includes(f.file, <<".", "json">>)
                          \/ Includes(f.file, <<".", "yaml">>)
        IsComponent(f) == \/ Includes(f.file, <<"component">>) \/ Includes(f.file, <<"/", "ui", "/">>)
                          \/ EndsWith(f.file, <<".", "tsx">>)
        IsApi(f)       == Includes(f.file, <<"/", "api", "/">>) \/ Includes(f.file, <<"route">>)
        Pattern(n, what) == IF n > 0 THEN << <<ToString(n)>> \o what >> ELSE <<>>
    IN  Pattern(Len(SelectSeq(files, IsDoc)), <<" ", "documentation", " ", "file", "(", "s", ")">>)
        \o Pattern(Len(SelectSeq(files, IsTest)), <<" ", "test", " ", "file", "(", "s", ")">>)
        \o Pattern(Len(SelectSeq(files, IsConfig)), <<" ", "config", " ", "file", "(", "s", ")">>)
        \o Pattern(Len(SelectSeq(files, IsComponent)), <<" ", "component", " ", "file", "(", "s", ")">>)
        \o Pattern(Len(SelectSeq(files, IsApi)), <<" ", "API", " ", "file", "(", "s", ")">>)

analyzeChanges(changes) ==
    LET files    == changes.files
        added    == Len(HasStatus(files, "A"))
        modified == Len(HasStatus(files, "M"))
        deleted  == Len(HasStatus(files, "D"))
        filePatterns == identifyFilePatterns(files)
        analysis ==
            (IF added > 0 THEN << <<ToString(added)>> \o <<" ", "file", "(", "s", ")", " ", "added">> >> ELSE <<>>)
            \o (IF modified > 0
                THEN << <<ToString(modified)>> \o <<" ", "file", "(", "s", ")", " ", "modified">> >> ELSE <<>>)
            \o (IF deleted > 0
                THEN << <<ToString(deleted)>> \o <<" ", "file", "(", "s", ")", " ", "deleted">> >> ELSE <<>>)
            \o (IF filePatterns # <<>>
                THEN << <<"Patterns", " ", "detected", ":", " ">> \o Join(filePatterns, <<",", " ">>) >>
                ELSE <<>>)
            \o << <<"Total", ":", " ", "+">> \o <<ToString(SumAdditions(files))>> \o <<" ", "-">>
                  \o <<ToString(SumDeletions(files))>> \o <<" ", "lines">> >>
    IN  Join(analysis, <<";", " ">>)

\* `- ${f.file} (${f.status}): +${f.additions} -${f.deletions}`
FileContextLine(f) ==
    <<"-", " ">> \o f.file \o <<" ", "(">> \o <<f.status>> \o <<")", ":", " ", "+">> \o <<ToString(f.additions)>>
    \o <<" ", "-">> \o <<ToString(f.deletions)>>

\* `File: ${f.file}\n${relevantLines.join('\n')}`
FileDiffContext(f) ==
    LET Relevant(line) ==
            \/ StartsWith(line, <<"+">>) \/ StartsWith(line, <<"-">>)
            \/ StartsWith(line, <<"@", "@">>)
    IN  <<"File", ":", " ">> \o f.file \o <<NL>>
        \o Join(Slice(SelectSeq(SplitLines(f.diff), Relevant), 30), <<NL>>)

PromptIntro ==
    <<"You", " ", "are", " ", "an", " ", "expert", " ", "at", " ", "analyzing", " ", "code", " ", "changes", " ", "and", " ", "writing", " ", "in", "format", "ive", " ", "Git", " ", "commit", " ", "message", "s", " ", "following", " ", "Conventional", " ", "Commits", " ", "specification", ".", "\n", "\n", "ANALYZE", " ", "these", " ", "code", " ", "changes", " ", "and", " ", "write", " ", "a", " ", "commit", " ", "message", " ", "that", " ", "explains", " ", "WHAT", " ", "was", " ", "done", " ", "and", " ", "WHY", ":", "\n", "\n", "Files", " ", "changed", ":", "\n">>

PromptRules ==
    <<"IMPORTANT", ":", " ", "Write", " ", "a", " ", "commit", " ", "message", " ", "that", " ", "describes", " ", "the", " ", "PURPOSE", " ", "and", " ", "IMPACT", " ", "of", " ", "changes", ",", " ", "NOT", " ", "just", " ", "listing", " ", "files", ".", "\n", "\n", "Good", " ", "example", " ", "format", ":", "\n", "fix", ":", " ", "cleanup", " ", "ClickUp", " ", "integration", " ", "format", "ting", " ", "and", " ", "improve", " ", "tool", " ", "handler", " ", "readability", "\n", "\n", "-", " ", "Fixed", " ", "inconsistent", " ", "format", "ting", " ", "in", " ", "clickup", "-", "story", "-", "client", ".", "ts", " ", "and", " ", "tool", "-", "handler", ".", "ts", "\n", "-", " ", "Improved", " ", "code", " ", "readability", " ", "by", " ", "re", "format", "ting", " ", "multi", "-", "line", " ", "statements", "\n", "-", " ", "Enhanced", " ", "error", " ", "handling", " ", "comments", " ", "for", " ", "better", " ", "debugging", " ", "clarity", "\n", "-", " ", "Added", " ", "detailed", " ", "documentation", " ", "files", " ", "explaining", " ", "ClickUp", "-", "related", " ", "fixes", "\n", "\n", "Bad", " ", "example", " ", "(", "DO", " ", "NOT", " ", "DO", " ", "THIS", ")", ":", "\n", "docs", "(", "docs", ")", ":", " ", "update", " ", "file1", ".", "ts", ",", " ", "file2", ".", "ts", ",", " ", "file3", ".", "ts", ",", " ", "file4", ".", "ts", "\n", "\n", "Generate", " ", "a", " ", "conventional", " ", "commit", " ", "message", " ", "with", ":", "\n", "1", ".", " ", "First", " ", "line", ":", " ", "type", "(", "scope", ")", ":", " ", "brief", " ", "description", " ", "of", " ", "the", " ", "change", " ", "(", "max", " ", "72", " ", "chars", ")", "\n", "-", " ", "Type", ":", " ", "feat", ",", " ", "fix", ",", " ", "refactor", ",", " ", "docs", ",", " ", "style", ",", " ", "test", ",", " ", "chore", ",", " ", "perf", ",", " ", "ci", ",", " ", "or", " ", "build", "\n", " ", " ", " ", "-", " ", "Scope", ":", " ", "affected", " ", "module", "/", "component", " ", "(", "optional", ")", "\n", " ", " ", " ", "-", " ", "Description", ":", " ", "what", " ", "was", " ", "accomplished", ",", " ", "not", " ", "what", " ", "files", " ", "changed", "\n", "\n", "2", ".", " ", "Body", " ", "(", "required", " ", "for", " ", "multi", "-", "file", " ", "changes", ")", ":", " ", "bullet", " ", "points", " ", "explaining", ":", "\n", " ", " ", " ", "-", " ", "What", " ", "specific", " ", "improvements", " ", "were", " ", "made", "\n", " ", " ", " ", "-", " ", "Why", " ", "these", " ", "changes", " ", "matter", "\n", " ", " ", " ", "-", " ", "Key", " ", "files", " ", "or", " ", "components", " ", "affected", " ", "(", "only", " ", "if", " ", "relevant", ")", "\n", "\n", "Focus", " ", "on", " ", "the", " ", "MEANING", " ", "and", " ", "PURPOSE", " ", "of", " ", "the", " ", "changes", ",", " ", "not", " ", "just", " ", "file", " ", "names", ".">>

buildPrompt(changes, options) ==
    LET files            == changes.files
        verbosity        == IF Truthy(options.verbosity) THEN options.verbosity
                            ELSE <<"balanced">>
        isLargeChangeset == Len(files) > 20
        fileLimit        == IF isLargeChangeset THEN 5 ELSE 10
        diffLimit        == IF isLargeChangeset THEN 2 ELSE 5
        shown            == Slice(files, fileLimit)
        diffed           == Slice(files, diffLimit)
        filesContext ==
            Join([i \in 1..Len(shown) |-> FileContextLine(shown[i])], <<NL>>)
            \o (IF isLargeChangeset
                THEN <<NL>> \o <<".", ".", ".", " ", "and", " ">> \o <<ToString(Len(files) - fileLimit)>>
                     \o <<" ", "more", " ", "files">>
                ELSE <<>>)
        diffContext ==
            Join([i \in 1..Len(diffed) |-> FileDiffContext(diffed[i])], <<"\n", "-", "-", "-", "\n">>)
    IN  PromptIntro \o filesContext
        \o <<"\n", "\n", "Change", " ", "analysis", ":", "\n">> \o analyzeChanges(changes) \o <<NL, NL>>
        \o (IF diffContext # <<>>
            THEN <<"Code", " ", "diff", " ", "(", "what", " ", "actually", " ", "changed", ")", ":", "\n">> \o diffContext \o <<NL>>
            ELSE <<>>)
        \o <<NL, NL>>
        \o (IF isLargeChangeset
            THEN <<NL, "<warning>">> \o <<" ", "LARGE", " ", "CHANGESET", " ", "(">> \o <<ToString(Len(files))>>
                 \o <<" ", "files", ")", ":", " ", "Focus", " ", "on", " ", "the", " ", "OVERALL", " ", "THEME", " ", "and", " ", "PRIMARY", " ", "PURPOSE", ",", " ", "not", " ", "individual", " ", "files", ".", " ", "Describe", " ", "the", " ", "main", " ", "feature", ",", " ", "refactoring", ",", " ", "or", " ", "change", " ", "being", " ", "implemented", ".", "\n">>
            ELSE <<>>)
        \o <<NL, NL>> \o PromptRules
        \o (IF Truthy(options.customPrompt)
            THEN <<"\n", "\n", "Additional", " ", "instructions", ":", " ">> \o options.customPrompt
            ELSE <<>>)
        \o (IF verbosity = <<"concise">>
            THEN <<"\n", "\n", "Keep", " ", "the", " ", "message", " ", "brief", " ", "but", " ", "still", " ", "in", "format", "ive", " ", "about", " ", "what", " ", "changed", ".">>
            ELSE IF verbosity = <<"detailed">>
            THEN <<"\n", "\n", "Provide", " ", "comprehensive", " ", "details", " ", "about", " ", "the", " ", "changes", " ", "and", " ", "their", " ", "impact", ".">>
            ELSE <<>>)
        \o <<"\n", "\n", "Commit", " ", "message", ":">>

----------------------------------------------------------------------------
(* Change sets *)

GitDiff(file, status, additions, deletions, diff) ==
    [file |-> file, status |-> status, additions |-> additions,
     deletions |-> deletions, diff |-> diff]

\* `${diffs.length} file(s) changed, ${totalAdditions} insertions(+), ...`
SummaryOf(files) ==
    <<ToString(Len(files)), " ", "file", "(", "s", ")", " ", "changed", ",", " ",
      ToString(SumAdditions(files)), " ", "insertions", "(", "+", ")", ",", " ",
      ToString(SumDeletions(files)), " ", "deletions", "(", "-", ")">>

\* The StagedChanges getStagedChanges returns for a non-empty list of diffs.
StagedChanges(files) ==
    [files |-> files, summary |-> SummaryOf(files), hasChanges |-> TRUE]

IsInjective(f) == \A i, j \in DOMAIN f : f[i] = f[j] => i = j

\* The lists of 1..n distinct members of pool.
ListsOf(pool, n) ==
    { s \in UNION { [1..k -> pool] : k \in 1..n } : IsInjective(s) }

Permutation(files, p) == [i \in 1..Len(files) |-> files[p[i]]]

PermutationsOf(n) == { p \in [1..n -> 1..n] : IsInjective(p) }

SeqToSet(s) == { s[i] : i \in 1..Len(s) }

\* StagedChanges of an empty index (git.ts: no staged files).
NoChanges ==
    [files |-> <<>>, summary |-> <<"No", " ", "staged", " ", "changes", " ", "found">>, hasChanges |-> FALSE]

\* options.verbosity, options.customPrompt: Null stands for an option not given.
NoOptions == [verbosity |-> Null, customPrompt |-> Null]

\* The fields of an assistant before its constructor has run.
NoAssistant == [modelId |-> Null, model |-> "null", modelLoaded |-> FALSE]

\* No entry point is running.
IdleRun ==
    [entry |-> "none", pc |-> "idle", changes |-> NoChanges, options |-> NoOptions,
     constructed |-> NoAssistant, invocations |-> 0, loads |-> 0, loadFailures |-> 0,
     lateSettled |-> 0, outcome |-> "none", text |-> <<>>, result |-> <<>>]

engineVars == <<env, assistant, run, inflight>>

EngineIdle ==
    /\ env = [skipAI |-> FALSE, model |-> Null]
    /\ assistant = NoAssistant
    /\ run = IdleRun
    /\ inflight = 0

----------------------------------------------------------------------------
(* The classifier on its own: every list of at most MaxFiles files of       *)
(* FilePool, and every permutation of it.                                   *)

MaxFiles == 3

FilePool ==
    { GitDiff(<<"src", "/", "a", ".", "test", ".", "ts">>, "M", 5, 1, <<>>),
      GitDiff(<<"docs", "/", "guide", ".", "md">>, "A", 20, 0, <<>>),
      GitDiff(<<"src", "/", "api", "/", "README", ".", "md">>, "M", 12, 4, <<>>),
      GitDiff(<<"package", ".", "json">>, "M", 2, 1, <<>>),
      GitDiff(<<"src", "/", "cli", "/", "index", ".", "ts">>, "M", 5, 5, <<>>),
      GitDiff(<<"src", "/", "component", "s", "/", "Button", ".", "tsx">>, "M", 15, 10, <<>>),
      GitDiff(<<"src", "/", "api", "/", "users", "/", "route", ".", "ts">>, "A", 80, 0, <<>>),
      GitDiff(<<"src", "/", "style", "s", "/", "main", ".", "css">>, "M", 3, 3, <<>>),
      GitDiff(<<"src", "/", "lib", "/", "util", ".", "ts">>, "A", 40, 0, <<>>),
      GitDiff(<<"src", "/", "lib", "/", "old", ".", "ts">>, "D", 0, 35, <<>>) }

NoAnalysis == [type |-> "", category |-> "", mainFiles |-> <<>>]

ClassifyIdle ==
    [pc |-> "idle", files |-> <<>>, perm |-> <<>>, res |-> NoAnalysis,
     resPerm |-> NoAnalysis]

ClassifyInit ==
    /\ classify \in { [ClassifyIdle EXCEPT !.pc = "ready", !.files = fs] :
                        fs \in ListsOf(FilePool, MaxFiles) }
    /\ parse = [pc |-> "idle", text |-> <<>>, out |-> <<>>]
    /\ EngineIdle
    /\ Unused(git) /\ Unused(heur) /\ Unused(cli) /\ Unused(fallback)

ClassifyCall ==
    /\ classify.pc = "ready"
    /\ \E p \in PermutationsOf(Len(classify.files)) :
         LET permuted == Permutation(classify.files, p)
         IN  classify' =
               [classify EXCEPT
                  !.pc = "done",
                  !.perm = permuted,
                  !.res = analyzeChangesForFallback(StagedChanges(classify.files)),
                  !.resPerm = analyzeChangesForFallback(StagedChanges(permuted))]
    /\ UNCHANGED <<parse, engineVars, git, heur, cli, fallback>>

ClassifyNext == ClassifyCall

ClassifySpec == ClassifyInit /\ [][ClassifyNext]_vars

\* C10 as stated: the CommitCategory (type, category and the mainFiles array)
\* is the same for every permutation of the files.
C10_SameCategoryArray ==
    classify.pc = "done" => classify.res = classify.resPerm

\* C10 as amended: type and category are the same for every permutation, and
\* mainFiles names the same paths, in the order the files were given.
C10_SameCategoryUpToOrder ==
    classify.pc = "done" =>
      /\ classify.res.type = classify.resPerm.type
      /\ classify.res.category = classify.resPerm.category
      /\ SeqToSet(classify.res.mainFiles) = SeqToSet(classify.resPerm.mainFiles)
      /\ Len(classify.res.mainFiles) = Len(classify.resPerm.mainFiles)

\* Two notable files, swapped by the permutation.
C10_Witness ==
    /\ classify.pc = "done"
    /\ Len(classify.res.mainFiles) = 2
    /\ classify.resPerm.mainFiles = <<classify.res.mainFiles[2], classify.res.mainFiles[1]>>
    /\ classify.res.type = "docs"

\* The category of the first rule of the eight-rule order that holds, given
\* which kinds of file are present, the number of files and the totals.
FirstRule(has, count, additions, deletions) ==
    IF has["tests"] THEN <<"test", "testing">>
    ELSE IF has["docs"] /\ ~has["components"] /\ ~has["api"] THEN <<"docs", "documentation">>
    ELSE IF has["config"] /\ count <= 3 THEN <<"chore", "configuration">>
    ELSE IF has["build"] \/ has["cli"] THEN <<"build", IF has["cli"] THEN "cli" ELSE "build">>
    ELSE IF has["styles"] /\ ~has["components"] /\ ~has["api"] THEN <<"style", "styling">>
    ELSE IF has["api"] THEN <<IF additions > 50 THEN "feat" ELSE "fix", "API">>
    ELSE IF has["components"] THEN <<IF additions > 50 THEN "feat" ELSE "fix", "components">>
    ELSE IF additions > 2 * deletions THEN <<"feat", "features">>
    ELSE IF deletions > 2 * additions THEN <<"refactor", "refactoring">>
    ELSE <<"fix", "fixes">>

FileKinds == {"tests", "docs", "config", "build", "cli", "components", "api", "styles"}

----------------------------------------------------------------------------
(* The parser on its own: every text of at most MaxLines lines of LinePool. *)

MaxLines == 3

LinePool ==
    { <<"feat", "(", "api", ")", ":", " ", "add", " ", "login">>,
      <<"FIX", "!", ":", " ", "drop", " ", "legacy", " ", "flag">>,
      <<" ", "style", "(", " ", "css", " ", ")", ":", " ", " ", "tidy", " ">>,
      <<"-", " ", "explain", " ", "the", " ", "change">>,
      <<>>,
      <<"docs", ":", " ", "brief", " ", "description", " ", "of", " ", "it">>,
      <<"chore", ":", " ", "updates">>,
      <<"Commit", " ", "message", ":">>,
      <<"see", " ", "the", " ", "example", " ", "below">>,
      <<"fix", ":">> }

ParseTexts ==
    { Join(ls, <<NL>>) : ls \in UNION { [1..n -> LinePool] : n \in 0..MaxLines } }

ParseInit ==
    /\ parse \in [pc : {"ready"}, text : ParseTexts, out : {<<>>}]
    /\ classify = ClassifyIdle
    /\ EngineIdle
    /\ Unused(git) /\ Unused(heur) /\ Unused(cli) /\ Unused(fallback)

ParseCall ==
    /\ parse.pc = "ready"
    /\ parse' = [parse EXCEPT !.pc = "done", !.out = parseAIResponse(parse.text)]
    /\ UNCHANGED <<classify, engineVars, git, heur, cli, fallback>>

ParseNext == ParseCall

ParseSpec == ParseInit /\ [][ParseNext]_vars

----------------------------------------------------------------------------
(* Properties of the parser *)

\* A line the scan opens a suggestion from: non-empty, matching the header
\* grammar, not filtered as meta-commentary.
AcceptedHeader(rawLine) ==
    LET line == Trim(rawLine)
        m    == HeaderMatch(line)
    IN  line # <<>> /\ m.ok /\ ~isMetaCommentary(line, Trim(m.subject))

\* A line gathered into the body of the open suggestion.
BodyLine(rawLine) ==
    LET line == Trim(rawLine)
    IN  line # <<>> /\ ~HeaderMatch(line).ok /\ ~isInstruction(line)

RECURSIVE TrimmedBodyLines(_, _, _)
TrimmedBodyLines(lines, from, to) ==
    IF from > to THEN <<>>
    ELSE (IF BodyLine(lines[from]) THEN <<Trim(lines[from])>> ELSE <<>>)
         \o TrimmedBodyLines(lines, from + 1, to)

AcceptedBeforeStop(text) ==
    LET lines == SplitLines(text)
    IN  {i \in 1..(StopAtLine(lines) - 1) : AcceptedHeader(lines[i])}

\* C8: parseAIResponse returns between 0 and 2 suggestions, which are the
\* first two accepted header lines before the first stop-marker line, in the
\* order they occur and each with the body lines that follow it; every one
\* has confidence 0.9 and a non-empty subject.
C8_ParserFirstTwoHeaders ==
    parse.pc = "done" =>
      LET lines == SplitLines(parse.text)
          stop  == StopAtLine(lines)
          acc   == AcceptedBeforeStop(parse.text)
          Kth(k) == CHOOSE i \in acc : Cardinality({j \in acc : j < i}) = k - 1
          EndOf(i) == IF \E j \in acc : j > i
                      THEN (CHOOSE j \in acc : j > i /\ \A h \in acc : h > i => j <= h) - 1
                      ELSE stop - 1
      IN  /\ Len(parse.out) <= 2
          /\ Len(parse.out) = Min(2, Cardinality(acc))
          /\ \A k \in 1..Len(parse.out) :
               LET s == parse.out[k]
                   i == Kth(k)
                   m == HeaderMatch(Trim(lines[i]))
                   b == TrimmedBodyLines(lines, i + 1, EndOf(i))
               IN  /\ s.type = ToLowerTok(m.type)
                   /\ s.type \in TypeSet
                   /\ s.subject = Trim(m.subject)
                   /\ s.subject # <<>>
                   /\ s.body = (IF b = <<>> THEN Null ELSE Join(b, <<NL>>))
                   /\ s.confidence = 90

\* Three accepted headers in the text, two suggestions returned.
C8_Witness ==
    /\ parse.pc = "done"
    /\ Cardinality(AcceptedBeforeStop(parse.text)) = 3
    /\ Len(parse.out) = 2
    /\ parse.out[1].subject # parse.out[2].subject

----------------------------------------------------------------------------
(* The engine and the entry points that call it *)

\* The GitDiff getStagedChanges builds from one file's diff text: additions
\* and deletions are the lines that start with + and with -.
StagedFile(file, status, diff) ==
    LET diffLines  == SplitLines(diff)
        IsPlus(l)  == StartsWith(l, <<"+">>)
        IsMinus(l) == StartsWith(l, <<"-">>)
    IN  GitDiff(file, status, Len(SelectSeq(diffLines, IsPlus)),
                Len(SelectSeq(diffLines, IsMinus)), diff)

\* The text git prints for a file changed, added or deleted with the given
\* hunk lines.
DiffText(file, status, hunk) ==
    (IF status = "A" THEN <<"-", "-", "-", " ", "/", "dev", "/", "null">> ELSE <<"-", "-", "-", " ", "a", "/">> \o file) \o <<NL>>
    \o (IF status = "D" THEN <<"+", "+", "+", " ", "/", "dev", "/", "null">> ELSE <<"+", "+", "+", " ", "b", "/">> \o file) \o <<NL>>
    \o <<"@", "@", " ", "-", "1", ",", "2", " ", "+", "1", ",", "3", " ", "@", "@">> \o <<NL>> \o hunk

Staged(file, status, hunk) == StagedFile(file, status, DiffText(file, status, hunk))

\* The change sets the entry points find staged.
EngineChangeSets ==
    LET ReadmeFile == <<"README", ".", "md">>
        AuthActionsFile == <<"src", "/", "app", "/", "(", "auth", ")", "/", "actions", ".", "ts">>
        AuthSchemaFile == <<"src", "/", "app", "/", "(", "auth", ")", "/", "schema", ".", "ts">>
        ButtonFile == <<"src", "/", "component", "s", "/", "Button", ".", "tsx">>
        WidgetFile == <<"src", "/", "legacy", "/", "LegacyWidget", ".", "ts">>
        WidgetTypesFile == <<"src", "/", "legacy", "/", "LegacyWidget", ".", "d", ".", "ts">>
        UtilFile == <<"src", "/", "lib", "/", "util", ".", "ts">>
        PackageFile == <<"package", ".", "json">>
        RouteFile == <<"src", "/", "app", "/", "api", "/", "users", "/", "route", ".", "ts">>
    IN
    { StagedChanges(<< Staged(ReadmeFile, "M", <<"+", "fix", ":", " ", "Usage", " ", "notes", "\n", "-", "Usage">>) >>),
      StagedChanges(<< Staged(AuthActionsFile, "A",
                              <<"+", "export", " ", "async", " ", "function", " ", "signIn", "(", "form", ")", " ", "{", "\n", "+", " ", " ", "return", " ", "post", "(", "form", ")", "\n", "+", "}">>),
                       Staged(AuthSchemaFile, "M",
                              <<"-", "const", " ", "limit", " ", "=", " ", "10", "\n", "+", "const", " ", "limit", " ", "=", " ", "20">>) >>),
      StagedChanges(<< Staged(ButtonFile, "A",
                              <<"+", "export", " ", "const", " ", "Button", " ", "=", " ", "(", ")", " ", "=", ">", " ", "{", "\n", "+", " ", " ", "return", " ", "<", "Card", " ", "title", "=", "'", "x", "'", " ", "/", ">", "\n", "+", "}">>) >>),
      StagedChanges(<< Staged(WidgetFile, "D", <<"-", "export", " ", "class", " ", "LegacyWidget", " ", "{", "}">>),
                       Staged(WidgetTypesFile, "D", <<"-", "export", " ", "declare", " ", "class", " ", "LegacyWidget", " ", "{", "}">>) >>),
      StagedChanges(<< Staged(UtilFile, "M",
                              <<"+", "import", " ", "{", " ", "z", " ", "}", " ", "from", " ", "'", "zod", "'", "\n", "+", "function", " ", "parse", "(", "x", ")", " ", "{", "\n", "-", "function", " ", "parse", "(", ")", " ", "{">>),
                       Staged(PackageFile, "M", <<"+", " ", " ", " ", " ", "\\", "\"", "zod", "\\", "\"", ":", " ", "\\", "\"", "^", "3", ".", "0", ".", "0", "\\", "\"", ",">>) >>),
      StagedChanges(<< Staged(RouteFile, "A",
                              <<"+", "router", ".", "post", "(", "'", "/", "users", "'", ",", " ", "create", ")", "\n", "+", "router", ".", "get", "(", "'", "/", "users", "'", ",", " ", "list", ")">>) >>) }

\* The options the callers pass: verbosity and the configured custom prompt.
EngineOptions ==
    { NoOptions,
      [verbosity |-> <<"concise">>, customPrompt |-> <<"feat", ":", " ", "keep", " ", "the", " ", "subject", " ", "short">>],
      [verbosity |-> <<"detailed">>, customPrompt |-> Null] }

\* What the model call may resolve with for a prompt: the prompt echoed, the
\* A completion on the line after the cue the prompt ends with.
HeaderAfterCue == <<NL, "fix", ":", " ", "handle", " ", "empty", " ", "input">>

\* prompt followed by a completion, a completion alone (a header with a body
\* line, three headers, prose without a header), or nothing.
GenTexts(prompt) ==
    { prompt,
      prompt \o <<" ", "feat", "(", "api", ")", ":", " ", "add", " ", "login">>,
      prompt \o HeaderAfterCue,
      <<"feat", "(", "api", ")", ":", " ", "add", " ", "login", "\n", "-", " ", "explain", " ", "the", " ", "change">>,
      <<"FIX", "!", ":", " ", "drop", " ", "legacy", " ", "flag", "\n", "feat", "(", "api", ")", ":", " ", "add", " ", "login", "\n", " ", "style", "(", " ", "css", " ", ")", ":", " ", " ", "tidy", " ">>,
      <<"see", " ", "the", " ", "example", " ", "below">>,
      <<>> }

\* What a model call that lost its race may settle with later: a text, or
\* Null for a rejection.
LateOutcomes == { <<"docs", ":", " ", "describe", " ", "the", " ", "late", " ", "answer">>, <<>>, Null }

DefaultModelId == <<"meta-llama/Llama-3.2-1B-Instruct">>

NoneModelId == <<"none">>

\* constructor(modelId?)
Constructor(modelId, e) ==
    [modelId     |-> IF Truthy(modelId) THEN modelId
                     ELSE IF Truthy(e.model) THEN e.model
                     ELSE DefaultModelId,
     model       |-> "null",
     modelLoaded |-> FALSE]

\* loadModel, the try branch: pipeline resolved.
\* Mutant: the flag is set and the pipeline is not kept.
LoadSuccess_flagOnly(a) == [a EXCEPT !.modelLoaded = TRUE]

LoadSuccess(a) == [a EXCEPT !.model = "pipeline", !.modelLoaded = TRUE]

\* loadModel, the catch branch: pipeline rejected.
LoadFailure(a) == [a EXCEPT !.modelLoaded = FALSE]

\* The outcomes pipeline('text-generation', modelId) can have: no model is
\* published under the name none.
LoadOutcomes(a) == IF a.modelId = NoneModelId THEN {FALSE} ELSE BOOLEAN

\* const skipAI = process.env.AI_COMMIT_SKIP_AI === 'true' || this.modelId === 'none'
SkipAI(e, a) == e.skipAI \/ a.modelId = NoneModelId

\* The state of the run once generateCommitMessage has returned.
Returned(r, outcome, text, result) ==
    [r EXCEPT !.pc = "done", !.outcome = outcome, !.text = text, !.result = result]

\* The state of the run when generateCommitMessage has reached one of its
\* two statements return this.generateFallbackSuggestions(changes).
Fallback(r, outcome, text) ==
    [r EXCEPT !.pc = "fallback", !.outcome = outcome, !.text = text]

\* Mutant: a single parsed suggestion is returned with the heuristic one
\* after it.
ReturnSuggestions_padded(r, text, aiSuggestions) ==
    IF Len(aiSuggestions) = 1
    THEN Returned(r, "parsed", text, aiSuggestions \o generateFallbackSuggestions(r.changes))
    ELSE IF Len(aiSuggestions) > 0 THEN Returned(r, "parsed", text, aiSuggestions)
    ELSE Fallback(r, "empty", text)

\* The end of generateCommitMessage's try block and what follows it: parsed
\* suggestions are returned when there are any, the heuristic ones otherwise.
\* Mutant: what the parser returned is returned, empty or not.
ReturnSuggestions_asParsed(r, text, aiSuggestions) ==
    Returned(r, IF Len(aiSuggestions) > 0 THEN "parsed" ELSE "empty", text, aiSuggestions)

ReturnSuggestions(r, text, aiSuggestions) ==
    IF Len(aiSuggestions) > 0 THEN Returned(r, "parsed", text, aiSuggestions)
    ELSE Fallback(r, "empty", text)

\* The catch block of generateCommitMessage and what follows it.
\* Mutant: the error is swallowed and nothing is suggested.
CatchError_nothing(r, outcome) == Returned(r, outcome, <<>>, <<>>)

CatchError(r, outcome) == Fallback(r, outcome, <<>>)

\* Promise.race has settled: the settlement of the promise that lost is
\* dropped.
\* Mutant: the late settlement replaces the result.
LateCompletion_kept(result, late) == late

LateCompletion(result, late) == result

\* result[0]?.generated_text || '' and the parse of it.
generateAIBasedSuggestions(text) == parseAIResponse(text)

MaxInvocations == 2

MaxAbandoned == 1

\* The process has started: the environment is set and no assistant is
\* constructed yet.
Init ==
    /\ env \in [skipAI : BOOLEAN, model : {Null, NoneModelId}]
    /\ assistant = NoAssistant
    /\ run = IdleRun
    /\ inflight = 0
    /\ parse = [pc |-> "idle", text |-> <<>>, out |-> <<>>]
    /\ classify = ClassifyIdle
    /\ Unused(git) /\ Unused(heur) /\ Unused(cli) /\ Unused(fallback)

\* The state of the run when generateCommitMessage awaits the race of the
\* model call and the timer.
Racing(r) == [r EXCEPT !.pc = "racing"]

\* generateCommitMessage(changes, options) up to its first await, or to its
\* return statement when AI is skipped.
Invoke(r, changes, options) ==
    LET entered == [r EXCEPT !.changes = changes, !.options = options,
                             !.invocations = @ + 1, !.lateSettled = 0,
                             !.outcome = "none", !.text = <<>>, !.result = <<>>]
    IN  /\ run' = IF SkipAI(env, assistant)
                  THEN Fallback(entered, "skipped", <<>>)
                  ELSE IF ~assistant.modelLoaded
                  THEN [entered EXCEPT !.pc = "loading", !.loads = @ + 1]
                  ELSE IF assistant.model # "null"
                  THEN Racing(entered)
                  ELSE Fallback(entered, "noModel", <<>>)
        /\ UNCHANGED <<assistant, env, inflight, parse, classify, git, heur, cli, fallback>>

\* cli/index.ts: the process constructs its CLI, and with it the assistant,
\* from the configured model.
NewCLI ==
    /\ run.pc = "idle"
    /\ \E cmd \in {"review", "commit"}, configModel \in {Null, NoneModelId} :
         /\ assistant' = Constructor(configModel, env)
         /\ run' = [IdleRun EXCEPT !.entry = cmd, !.pc = "ready",
                                   !.constructed = Constructor(configModel, env)]
    /\ UNCHANGED <<env, inflight, parse, classify, git, heur, cli, fallback>>

\* CLI.review and CLI.commit: the call of generateCommitMessage on the staged
\* changes.
CliGenerate ==
    /\ run.pc = "ready"
    /\ run.entry \in {"review", "commit"}
    /\ \E changes \in EngineChangeSets, options \in EngineOptions :
         Invoke(run, changes, options)

\* The generate route: the staged changes are read and a new assistant is
\* constructed for the request.
RoutePost ==
    /\ run.pc = "idle"
    /\ \E changes \in EngineChangeSets, options \in EngineOptions :
         /\ options.customPrompt = Null
         /\ assistant' = Constructor(Null, env)
         /\ run' = [IdleRun EXCEPT !.entry = "web", !.pc = "route",
                                   !.changes = changes, !.options = options,
                                   !.constructed = Constructor(Null, env)]
    /\ UNCHANGED <<env, inflight, parse, classify, git, heur, cli, fallback>>

\* The generate route: await aiAssistant.loadModel().
RouteLoadModel ==
    /\ run.pc = "route"
    /\ \E ok \in LoadOutcomes(assistant) :
         /\ assistant' = IF ok THEN LoadSuccess(assistant) ELSE LoadFailure(assistant)
         /\ run' = [run EXCEPT !.pc = "route_loaded", !.loads = @ + 1,
                               !.loadFailures = IF ok THEN @ ELSE @ + 1]
    /\ UNCHANGED <<env, inflight, parse, classify, git, heur, cli, fallback>>

\* The generate route: the call of generateCommitMessage.
RouteGenerate ==
    /\ run.pc = "route_loaded"
    /\ Invoke(run, run.changes, run.options)

\* A program that uses the class directly constructs an assistant.
NewAssistant ==
    /\ run.pc = "idle"
    /\ \E modelId \in {Null, NoneModelId} :
         /\ assistant' = Constructor(modelId, env)
         /\ run' = [IdleRun EXCEPT !.entry = "direct", !.pc = "ready",
                                   !.constructed = Constructor(modelId, env)]
    /\ UNCHANGED <<env, inflight, parse, classify, git, heur, cli, fallback>>

\* ... and calls generateCommitMessage on it, again once a call has returned.
DirectGenerate ==
    /\ run.entry = "direct"
    /\ run.pc \in {"ready", "done"}
    /\ run.invocations < MaxInvocations
    /\ \E changes \in EngineChangeSets, options \in EngineOptions :
         Invoke([run EXCEPT !.loads = 0, !.loadFailures = 0], changes, options)

\* The loadModel that generateCommitMessage awaits settles.
LoadSettles ==
    /\ run.pc = "loading"
    /\ \E ok \in LoadOutcomes(assistant) :
         LET a == IF ok THEN LoadSuccess(assistant) ELSE LoadFailure(assistant)
             r == [run EXCEPT !.loadFailures = IF ok THEN @ ELSE @ + 1]
         IN  /\ assistant' = a
             /\ run' = IF a.modelLoaded /\ a.model # "null"
                       THEN Racing(r)
                       ELSE Fallback(r, "loadFailed", <<>>)
    /\ UNCHANGED <<env, inflight, parse, classify, git, heur, cli, fallback>>

\* The model call settles first, with a text.
ModelReturns ==
    /\ run.pc = "racing"
    /\ \E text \in GenTexts(buildPrompt(run.changes, run.options)) :
         run' = ReturnSuggestions(run, text, generateAIBasedSuggestions(text))
    /\ UNCHANGED <<assistant, env, inflight, parse, classify, git, heur, cli, fallback>>

\* The model call settles first, with an error.
ModelThrows ==
    /\ run.pc = "racing"
    /\ run' = CatchError(run, "threw")
    /\ UNCHANGED <<assistant, env, inflight, parse, classify, git, heur, cli, fallback>>

\* The timer settles first: the race rejects and the model call is left
\* running.
TimerFires ==
    /\ run.pc = "racing"
    /\ inflight < MaxAbandoned
    /\ run' = CatchError(run, "timeout")
    /\ inflight' = inflight + 1
    /\ UNCHANGED <<assistant, env, parse, classify, git, heur, cli, fallback>>

\* return this.generateFallbackSuggestions(changes)
FallbackReturns ==
    /\ run.pc = "fallback"
    /\ run' = Returned(run, run.outcome, run.text, generateFallbackSuggestions(run.changes))
    /\ UNCHANGED <<assistant, env, inflight, parse, classify, git, heur, cli, fallback>>

\* A model call that lost its race settles, between two turns of the caller.
AbandonedSettles ==
    /\ inflight > 0
    /\ run.pc # "fallback"
    /\ inflight' = inflight - 1
    /\ \E late \in LateOutcomes :
         run' = [run EXCEPT
                   !.lateSettled = @ + 1,
                   !.result = LateCompletion(@, IF late = Null THEN <<>>
                                                ELSE generateAIBasedSuggestions(late))]
    /\ UNCHANGED <<assistant, env, parse, classify, git, heur, cli, fallback>>

Next ==
    \/ NewCLI
    \/ CliGenerate
    \/ RoutePost
    \/ RouteLoadModel
    \/ RouteGenerate
    \/ NewAssistant
    \/ DirectGenerate
    \/ LoadSettles
    \/ ModelReturns
    \/ ModelThrows
    \/ TimerFires
    \/ FallbackReturns
    \/ AbandonedSettles

Spec == Init /\ [][Next]_vars

----------------------------------------------------------------------------
(* Properties of the engine *)

\* C1: for every staged change set and every behaviour of the model (the
\* load succeeds or fails, the call returns a text, throws, or is overtaken by
\* the timer) generateCommitMessage returns at least one suggestion, and every
\* suggestion returned has a confidence in [0,1] and one of the ten types.
C1_AtLeastOneSuggestion ==
    run.pc = "done" =>
      /\ run.changes.hasChanges
      /\ Len(run.result) >= 1
      /\ \A i \in 1..Len(run.result) :
           /\ run.result[i].confidence \in 0..100
           /\ run.result[i].type \in TypeSet

\* The model answered with a text the parser finds nothing in, and one
\* suggestion is returned all the same.
C1_Witness ==
    /\ run.pc = "done"
    /\ run.outcome = "empty"
    /\ Len(run.result) = 1

\* The ways the generative path fails.
FailureOutcomes == {"loadFailed", "threw", "timeout", "empty"}

\* C2: whenever the generative path fails (the load fails, the model call
\* throws, the timer wins, the parser finds no suggestion) generateCommitMessage
\* returns, and returns exactly the heuristic result for the change set: one
\* suggestion of confidence 0.85, the same after a timeout as after an error.
C2_FailureGivesHeuristic ==
    /\ run.outcome \in FailureOutcomes => run.pc \in {"fallback", "done"}
    /\ run.pc = "done" /\ run.outcome \in FailureOutcomes =>
         /\ run.result = generateFallbackSuggestions(run.changes)
         /\ Len(run.result) = 1
         /\ run.result[1].confidence = HeuristicConfidence

\* The timer won the race and the heuristic suggestion was returned.
C2_Witness ==
    /\ run.pc = "done"
    /\ run.outcome = "timeout"
    /\ inflight = 1
    /\ run.result = generateFallbackSuggestions(run.changes)

\* C28: every sequence generateCommitMessage returns is of one kind: one or
\* two parsed suggestions, all of confidence 0.9, or exactly one heuristic
\* suggestion of confidence 0.85 that is not breaking; the two kinds are
\* never mixed, so the suggestions of a result share one confidence.
C28_ResultOfOneKind ==
    run.pc = "done" =>
      LET result == run.result
          n      == Len(result)
      IN  /\ \/ /\ n \in 1..MaxParsed
                /\ \A i \in 1..n : result[i].confidence = ParsedConfidence
                /\ run.outcome = "parsed"
             \/ /\ n = 1
                /\ result[1].confidence = HeuristicConfidence
                /\ result[1].breaking = FALSE
                /\ run.outcome \in FailureOutcomes \cup {"skipped"}
          /\ \A i, j \in 1..n : result[i].confidence = result[j].confidence

\* Two parsed suggestions were returned, the first of them breaking.
C28_Witness ==
    /\ run.pc = "done"
    /\ run.outcome = "parsed"
    /\ Len(run.result) = 2
    /\ run.result[1].breaking
    /\ run.result[2].confidence = ParsedConfidence

\* C3: when AI is disabled (the model is named none, or AI_COMMIT_SKIP_AI is
\* true) no model load is attempted at any point of the request, whichever
\* entry point produces the suggestions.
C3_NoLoadWhenDisabled ==
    run.entry # "none" /\ SkipAI(env, run.constructed) => run.loads = 0

\* C4: after a load attempt has failed, no second load is attempted in the
\* same run, and the run ends on the heuristic path.
C4_NoSecondLoad ==
    run.loadFailures >= 1 =>
      /\ run.loads = 1
      /\ run.pc # "racing"
      /\ run.outcome \in {"none", "loadFailed", "skipped"}

\* C5, as stated: after any sequence of invocations every field of the
\* assistant has the value it had before the first invocation.
C5_AssistantUnchanged ==
    run.pc = "done" => assistant = run.constructed

\* C5, amended: the only state of the assistant that survives an invocation
\* is the loaded model. modelId never changes; model and modelLoaded are as
\* constructed until a load succeeds, and from then on they are the pipeline
\* and true.
C5_OnlyLoadedModelKept ==
    run.entry # "none" =>
      /\ assistant.modelId = run.constructed.modelId
      /\ \/ assistant = run.constructed
         \/ assistant = [run.constructed EXCEPT !.model = "pipeline", !.modelLoaded = TRUE]
      /\ run.pc = "racing" => assistant.model = "pipeline"

\* A second invocation has returned on an assistant whose first invocation
\* loaded the model.
C5_Witness ==
    /\ run.pc = "done"
    /\ run.invocations = 2
    /\ run.loads = 0
    /\ assistant.modelLoaded
    /\ assistant # run.constructed

\* C6: the model call is raced against the timer; the settlement of a call
\* that lost its race changes neither the result returned, nor the assistant,
\* nor where the caller stands, and an invocation during which it settles
\* still returns what its own outcome determines.
C6_LateCompletionDiscarded ==
    /\ [][inflight' < inflight =>
            /\ run'.result = run.result
            /\ run'.outcome = run.outcome
            /\ run'.pc = run.pc
            /\ assistant' = assistant]_vars
    /\ [](run.pc = "done" /\ run.lateSettled > 0 =>
            run.result = IF run.outcome = "parsed"
                         THEN parseAIResponse(run.text)
                         ELSE generateFallbackSuggestions(run.changes))

\* The call abandoned by the first invocation settled while the second was
\* racing, and the second returned what the model answered to it.
C6_Witness ==
    /\ run.pc = "done"
    /\ run.invocations = 2
    /\ run.lateSettled > 0
    /\ run.outcome = "parsed"
    /\ run.result = parseAIResponse(run.text)

\* The generated text is the prompt, echoed.
PromptEchoed ==
    /\ run.pc \in {"fallback", "done"}
    /\ run.outcome \in {"parsed", "empty"}
    /\ run.text = buildPrompt(run.changes, run.options)

HeaderFollowsPrompt ==
    /\ run.pc \in {"fallback", "done"}
    /\ run.outcome \in {"parsed", "empty"}
    /\ run.text = buildPrompt(run.changes, run.options) \o HeaderAfterCue

\* C27: the parser discards every line from the first line that holds a
\* stop marker on: each suggestion it returns was opened by a header line
\* before that line. When the generated text is the prompt followed by a
\* well-formed header on the line after the cue Commit message:, the header
\* yields no suggestion, the parser returns none and generateCommitMessage
\* returns the heuristic result.
C27_NothingAfterStopMarker ==
    /\ (run.pc \in {"fallback", "done"} /\ run.outcome \in {"parsed", "empty"}) =>
         LET lines  == SplitLines(run.text)
             parsed == parseAIResponse(run.text)
             marked == { i \in 1..Len(lines) : HasStopMarker(lines[i]) }
             before == { i \in 1..Len(lines) : \A j \in marked : i < j }
         IN  /\ \A k \in 1..Len(parsed) :
                  \E i \in before :
                     /\ AcceptedHeader(lines[i])
                     /\ parsed[k].subject = Trim(HeaderMatch(Trim(lines[i])).subject)
             /\ (\A i \in before : ~AcceptedHeader(lines[i])) => parsed = <<>>
    /\ HeaderFollowsPrompt =>
         LET lines == SplitLines(run.text)
             last  == lines[Len(lines)]
         IN  /\ AcceptedHeader(last)
             /\ HasStopMarker(lines[Len(lines) - 1])
             /\ parseAIResponse(run.text) = <<>>
             /\ run.outcome = "empty"
             /\ run.pc = "done" => run.result = generateFallbackSuggestions(run.changes)

\* The prompt came back with a header after the cue and the heuristic
\* suggestion was returned.
C27_Witness ==
    /\ HeaderFollowsPrompt
    /\ run.pc = "done"
    /\ Len(run.result) = 1
    /\ run.result[1].confidence = HeuristicConfidence

\* C9: every suggestion returned has the fullMessage the template gives for
\* its type, scope, breaking, subject and body, and parseAIResponse on that
\* fullMessage returns a first suggestion of the same type, scope and subject.
C9_FullMessageRoundTrip ==
    run.pc = "done" =>
      \A i \in 1..Len(run.result) :
        LET s     == run.result[i]
            again == parseAIResponse(s.fullMessage)
        IN  /\ s.fullMessage = FullMessage(s.type, s.scope, s.breaking, s.subject, s.body)
            /\ Len(again) >= 1
            /\ again[1].type = s.type
            /\ again[1].scope = s.scope
            /\ again[1].subject = s.subject

----------------------------------------------------------------------------
(* getStagedChanges on its own. The repository holds two copies of          *)
(* lib/git.ts that differ in the catch block of the per-file diff query:    *)
(* the newer one pushes a placeholder entry, the older one only warns.      *)

MaxStaged == 2

\* status.files.find(f => f.path === file)?.index || 'M'
StatusChar(status, file) ==
    LET found == SelectSeq(status.files, LAMBDA f : f.path = file)
    IN  IF found # <<>> /\ found[1].index # "" THEN found[1].index ELSE "M"

\* The catch block of the per-file diff query: what is pushed onto diffs.
FailedDiff(copy, status, file) ==
    IF copy = "newer" /\ \E i \in 1..Len(status.files) : status.files[i].path = file
    THEN << GitDiff(file, StatusChar(status, file), 0, 0,
                    <<"/", "/", " ", "Unable", " ", "to", " ", "retrieve", " ", "diff", " ", "for", " ">> \o file) >>
    ELSE <<>>

\* for (const file of stagedFiles): diffs after the files from the i-th on;
\* diffOf[file] is the text git prints, Null when the query throws.
RECURSIVE CollectDiffs(_, _, _, _, _)
CollectDiffs(copy, status, diffOf, i, diffs) ==
    IF i > Len(status.staged) THEN diffs
    ELSE LET file == status.staged[i]
         IN  CollectDiffs(copy, status, diffOf, i + 1,
               diffs \o (IF diffOf[file] = Null
                         THEN FailedDiff(copy, status, file)
                         ELSE << StagedFile(file, StatusChar(status, file), diffOf[file]) >>))

getStagedChanges(copy, status, diffOf) ==
    IF Len(status.staged) = 0 THEN NoChanges
    ELSE LET diffs == CollectDiffs(copy, status, diffOf, 1, <<>>)
         IN  [files |-> diffs, summary |-> SummaryOf(diffs), hasChanges |-> TRUE]

\* git.status() of an index that stages the given entries [path, index, hunk]:
\* status.staged lists the paths and status.files has one entry for each.
StatusOf(entries) ==
    [staged |-> [i \in 1..Len(entries) |-> entries[i].path],
     files  |-> [i \in 1..Len(entries) |-> [path |-> entries[i].path, index |-> entries[i].index]]]

\* What git.diff(['--cached', '--', file]) gives for each staged path: Null
\* for the paths whose query throws, the text git prints for the others.
DiffOf(entries, failing) ==
    [f \in { entries[i].path : i \in 1..Len(entries) } |->
       IF f \in failing THEN Null
       ELSE LET e == CHOOSE e \in SeqToSet(entries) : e.path = f
            IN  DiffText(f, e.index, e.hunk)]

\* The entries an index may stage.
StagedPool ==
    { [path |-> <<"src", "/", "lib", "/", "util", ".", "ts">>, index |-> "M",
       hunk |-> <<"+", "const", " ", "a", " ", "=", " ", "1", "\n", "-", "const", " ", "a", " ", "=", " ", "0">>],
      [path |-> <<"src", "/", "lib", "/", "old", ".", "ts">>, index |-> "D",
       hunk |-> <<"-", "export", " ", "const", " ", "old", " ", "=", " ", "1">>],
      [path |-> <<"docs", "/", "guide", ".", "md">>, index |-> "A",
       hunk |-> <<"+", "Guide", "\n", "+", "Usage">>] }

\* Every index of at most MaxStaged entries, every set of paths whose diff
\* query throws, and both copies of the service.
GitInit ==
        /\ \E entries \in ListsOf(StagedPool, MaxStaged) \cup {<<>>} :
          \E failing \in SUBSET { entries[i].path : i \in 1..Len(entries) } :
            \E copy \in {"newer", "older"} :
              git = [pc |-> "ready", copy |-> copy, status |-> StatusOf(entries),
                     diffOf |-> DiffOf(entries, failing), out |-> NoChanges]
        /\ parse = [pc |-> "idle", text |-> <<>>, out |-> <<>>]
        /\ classify = ClassifyIdle
        /\ EngineIdle
        /\ Unused(heur) /\ Unused(cli) /\ Unused(fallback)

GitCall ==
    /\ git.pc = "ready"
    /\ git' = [git EXCEPT !.pc = "done",
                          !.out = getStagedChanges(git.copy, git.status, git.diffOf)]
    /\ UNCHANGED <<parse, classify, engineVars, heur, cli, fallback>>

GitSpec == GitInit /\ [][GitCall]_vars

\* C14 as stated: hasChanges is true exactly when files is non-empty, and the
\* summary states the number of entries of files and the sums of their
\* additions and deletions, whatever set of diff queries fails.
C14_HasChangesIffFiles ==
    git.pc = "done" =>
      /\ git.out.hasChanges = (Len(git.out.files) > 0)
      /\ git.out.hasChanges =>
            git.out.summary =
              <<ToString(Len(git.out.files)), " ", "file", "(", "s", ")", " ", "changed", ",", " ",
                ToString(SumAdditions(git.out.files)), " ", "insertions", "(", "+", ")", ",", " ",
                ToString(SumDeletions(git.out.files)), " ", "deletions", "(", "-", ")">>

\* C15 as stated: a file whose diff query fails still has an entry, with no
\* additions and no deletions, so files has one entry for every staged file.
C15_PlaceholderForFailedDiff ==
    git.pc = "done" =>
      /\ Len(git.out.files) = Len(git.status.staged)
      /\ \A i \in 1..Len(git.status.staged) :
           /\ git.out.files[i].file = git.status.staged[i]
           /\ git.diffOf[git.status.staged[i]] = Null =>
                git.out.files[i].additions = 0 /\ git.out.files[i].deletions = 0

----------------------------------------------------------------------------
(* The heuristic analysers on their own: analyzeDiffsInDepth on every       *)
(* window of at most MaxWindow added lines in one of three files, and       *)
(* generateSmartSubject on every list of at most MaxDeleted deleted files.  *)

MaxWindow == 12

MaxDeleted == 3

\* What the analysers return for the staged changes of h: raw holds the arrays
\* of analyzeDiffsInDepth before they are made unique and sliced.
HeurResult(h, raw, diffAnalysis) ==
    [h EXCEPT !.pc = "done", !.raw = raw, !.out = diffAnalysis,
              !.words = findCommonWords(FileNames(HasStatus(h.changes.files, "D"))),
              !.subject = generateSmartSubject(h.changes,
                              analyzeChangesForFallback(h.changes), diffAnalysis),
              !.body = generateSmartBody(h.changes,
                              analyzeChangesForFallback(h.changes), diffAnalysis)]

HeurInit ==
    LET added ==
         <<<<"+", " ", " ", "<", "Card", " ", "/", ">">>,
           <<"+", " ", " ", "<", "Modal", " ", "/", ">">>,
           <<"+", " ", " ", "<", "Panel", " ", "/", ">">>,
           <<"+", " ", " ", "<", "Button", " ", "/", ">">>,
           <<"+", " ", " ", "<", "LoginForm", " ", "/", ">">>,
           <<"+", " ", " ", "<", "UserService", " ", "/", ">">>,
           <<"+", " ", " ", "<", "Foo", " ", "/", ">">>,
           <<"+", " ", " ", "<", "LegacyWidget", " ", "/", ">">>,
           <<"+", " ", " ", "<", "Widget", " ", "/", ">">>,
           <<"+", " ", " ", "<", "Legacy", " ", "/", ">">>,
           <<"+", " ", " ", "<", "Helper", " ", "/", ">">>,
           <<"+", "export", " ", "const", " ", "Button", " ", "=", " ", "(", ")", " ", "=", ">", " ", "{">>,
           <<"+", "export", " ", "const", " ", "Card", " ", "=", " ", "(", ")", " ", "=", ">", " ", "{">>,
           <<"+", "export", " ", "const", " ", "Button", " ", "=", " ", "(", ")", " ", "=", ">", " ", "{">>,
           <<"+", "export", " ", "const", " ", "Modal", " ", "=", " ", "(", ")", " ", "=", ">", " ", "{">>,
           <<"+", "export", " ", "const", " ", "Panel", " ", "=", " ", "(", ")", " ", "=", ">", " ", "{">>,
           <<"+", "function", " ", "load", "(", ")", " ", "{">>,
           <<"+", "function", " ", "save", "(", ")", " ", "{">>,
           <<"+", "function", " ", "load", "(", ")", " ", "{">>,
           <<"+", "function", " ", "parse", "(", ")", " ", "{">>,
           <<"+", "function", " ", "reset", "(", ")", " ", "{">>,
           <<"+", "function", " ", "merge", "(", ")", " ", "{">>,
           <<"+", "export", " ", "const", " ", "clone", " ", "=", " ", "async", " ", "(", ")", " ", "=", ">", " ", "{">>,
           <<"+", "export", " ", "class", " ", "UserService", " ", "{">>,
           <<"+", "export", " ", "class", " ", "Foo", " ", "{">>,
           <<"+", "export", " ", "class", " ", "Helper", " ", "{">>,
           <<"+", "export", " ", "class", " ", "Widget", " ", "{">>,
           <<"+", "router", ".", "get", "(", "'", "/", "users", "'", ",", " ", "handler", ")">>,
           <<"+", "router", ".", "post", "(", "'", "/", "users", "'", ",", " ", "handler", ")">>,
           <<"+", "router", ".", "get", "(", "'", "/", "users", "'", ",", " ", "handler", ")">>,
           <<"+", "router", ".", "put", "(", "'", "/", "users", "'", ",", " ", "handler", ")">>,
           <<"+", "router", ".", "patch", "(", "'", "/", "users", "'", ",", " ", "handler", ")">>,
           <<"+", "router", ".", "delete", "(", "'", "/", "users", "'", ",", " ", "handler", ")">>,
           <<"+", " ", " ", "\"", "name", "\"", ":", " ", "\"", "x", "\"", ",">>,
           <<"+", " ", " ", "\"", "version", "\"", ":", " ", "\"", "x", "\"", ",">>,
           <<"+", " ", " ", "\"", "main", "\"", ":", " ", "\"", "x", "\"", ",">>,
           <<"+", " ", " ", "\"", "name", "\"", ":", " ", "\"", "x", "\"", ",">>,
           <<"+", " ", " ", "\"", "scripts", "\"", ":", " ", "\"", "x", "\"", ",">>,
           <<"+", " ", " ", "\"", "license", "\"", ":", " ", "\"", "x", "\"", ",">>,
           <<"+", " ", " ", "\"", "type", "\"", ":", " ", "\"", "x", "\"", ",">>,
           <<"+", "import", " ", "x", " ", "from", " ", "'", "zod", "'">>,
           <<"+", "import", " ", "x", " ", "from", " ", "'", "react", "'">>,
           <<"+", "import", " ", "x", " ", "from", " ", "'", "zod", "'">>,
           <<"+", "import", " ", "x", " ", "from", " ", "'", "lodash", "'">>,
           <<"+", "import", " ", "x", " ", "from", " ", "'", "axios", "'">>,
           <<"+", "import", " ", "x", " ", "from", " ", "'", "chalk", "'">>,
           <<"+", "import", " ", "x", " ", "from", " ", "'", "commander", "'">>>>
        paths == { <<"src", "/", "component", "s", "/", "Panel", ".", "tsx">>,
                   <<"src", "/", "api", "/", "users", "/", "route", ".", "ts">>,
                   <<"app", ".", "config", ".", "json">> }
        deleted == { <<"src", "/", "legacy", "/", "LegacyWidget", ".", "ts">>,
                     <<"src", "/", "legacy", "/", "LegacyWidget", ".", "d", ".", "ts">>,
                     <<"src", "/", "legacy", "/", "helper", ".", "ts">>,
                     <<"src", "/", "legacy", "/", "date", "-", "utils", ".", "ts">>,
                     <<"src", "/", "legacy", "/", "string", "-", "utils", ".", "ts">> }
        windows == { SubSeq(added, from, Min(from + n - 1, Len(added))) :
                       from \in 1..Len(added), n \in 1..MaxWindow }
        other == Staged(<<"src", "/", "lib", "/", "util", ".", "ts">>, "M",
                        <<"+", "/", "/", " ", "note", "\n", "-", "/", "/", " ", "todo">>)
        inputs ==
          { StagedChanges(<< Staged(path, "M", Join(w, <<NL>>)) >> \o rest) :
              path \in paths, w \in windows, rest \in {<<>>, <<other>>} }
          \cup
          { StagedChanges([i \in 1..Len(names) |->
                             Staged(names[i], "D", <<"-", "export", " ", "{", "}">>)]) :
              names \in ListsOf(deleted, MaxDeleted) }
    IN  /\ heur \in [pc : {"ready"}, changes : inputs, raw : {NoSignals},
                     out : {NoSignals}, words : {<<>>}, subject : {<<>>},
                     body : {<<>>}]
        /\ parse = [pc |-> "idle", text |-> <<>>, out |-> <<>>]
        /\ classify = ClassifyIdle
        /\ EngineIdle
        /\ Unused(git) /\ Unused(cli) /\ Unused(fallback)

HeurCall ==
    /\ heur.pc = "ready"
    /\ heur' = HeurResult(heur, ScanDiffs(NoSignals, heur.changes.files, 1),
                          analyzeDiffsInDepth(heur.changes))
    /\ UNCHANGED <<parse, classify, engineVars, git, cli, fallback>>

HeurSpec == HeurInit /\ [][HeurCall]_vars

\* The seven signal sets and the size each is sliced to; the HTTP verbs are
\* not sliced, and there are five of them.
SignalCaps ==
    [newFunctions |-> 5, newClasses |-> 3, newComponents |-> 5, newImports |-> 5,
     configChanges |-> 5, uiChanges |-> 10, apiChanges |-> 5]

\* A signal set holds no name twice and holds as many names as the raw array
\* has distinct ones, up to cap: the cap is applied after the duplicates are
\* removed.
CappedSet(set, raw, cap) ==
    /\ IsInjective(set)
    /\ SeqToSet(set) \subseteq SeqToSet(raw)
    /\ Len(set) = Min(cap, Cardinality(SeqToSet(raw)))

\* C18 as stated: every signal set is duplicate-free and holds at most five
\* names, at most three for the classes, the cap applied after the duplicates
\* are removed.
C18_AtMostFive ==
    heur.pc = "done" =>
      \A k \in DOMAIN SignalCaps :
        CappedSet(heur.out[k], heur.raw[k], IF k = "newClasses" THEN 3 ELSE 5)

\* C18 as amended: every signal set is duplicate-free, the cap is applied
\* after the duplicates are removed, and the cap is five names for functions,
\* components, imports and configuration keys, three for classes and ten for
\* UI tags; the HTTP verbs are not capped and are at most the five verbs.
C18_CappedAfterDedup ==
    heur.pc = "done" =>
      \A k \in DOMAIN SignalCaps : CappedSet(heur.out[k], heur.raw[k], SignalCaps[k])

\* Seven added functions, one name twice: six distinct names, five returned.
C18_Witness ==
    /\ heur.pc = "done"
    /\ Len(heur.raw.newFunctions) > Cardinality(SeqToSet(heur.raw.newFunctions))
    /\ Cardinality(SeqToSet(heur.raw.newFunctions)) > 5
    /\ Len(heur.out.newFunctions) = 5

\* The rule of the priority order that holds for the given counts.
PurposeRule(n) ==
    IF n.newComponents > 3 THEN 1
    ELSE IF n.newComponents > 0 THEN 2
    ELSE IF n.newFunctions > 5 THEN 3
    ELSE IF n.newFunctions > 0 THEN 4
    ELSE IF n.newClasses > 0 THEN 5
    ELSE IF n.apiChanges > 0 THEN 6
    ELSE IF n.uiChanges > 5 THEN 7
    ELSE IF n.configChanges > 0 THEN 8
    ELSE IF n.newImports > 0 THEN 9
    ELSE 10

\* The rule a mainPurpose phrase comes from.
PhraseRule(p) ==
    IF p = <<>> THEN 10
    ELSE IF StartsWith(p, <<"implementing", " ">>) /\ EndsWith(p, <<"new", " ", "UI", " ", "component", "s">>) THEN 1
    ELSE IF StartsWith(p, <<"adding", " ">>)
            /\ (EndsWith(p, <<" ", "component">>) \/ EndsWith(p, <<" ", "component", "s">>)) THEN 2
    ELSE IF p = <<"implementing", " ", "multiple", " ", "utility", " ", "functions", " ", "and", " ", "helpers">> THEN 3
    ELSE IF StartsWith(p, <<"adding", " ">>)
            /\ (EndsWith(p, <<" ", "function">>) \/ EndsWith(p, <<" ", "function", "s">>)) THEN 4
    ELSE IF StartsWith(p, <<"implementing", " ">>)
            /\ (EndsWith(p, <<" ", "class">>) \/ EndsWith(p, <<" ", "class", "es">>)) THEN 5
    ELSE IF StartsWith(p, <<"adding", " ">>)
            /\ (EndsWith(p, <<"API", " ", "endpoint">>) \/ EndsWith(p, <<"API", " ", "endpoint", "s">>)) THEN 6
    ELSE IF StartsWith(p, <<"enhancing", " ", "UI">>) THEN 7
    ELSE IF StartsWith(p, <<"updating", " ", "configuration">>) THEN 8
    ELSE IF StartsWith(p, <<"integrating", " ">>) THEN 9
    ELSE 0

\* C19 as stated: mainPurpose comes from the first rule of the priority order
\* that holds, the counts compared being those of the duplicate-free sets.
C19_PurposeByDistinctCounts ==
    heur.pc = "done" =>
      PhraseRule(heur.out.mainPurpose)
        = PurposeRule([k \in DOMAIN SignalCaps |-> Cardinality(SeqToSet(heur.raw[k]))])

\* C20 as stated: the deletion-specific subject names a word only if the
\* word occurs in the base names of at least max(2, ceil(30% of the number of
\* deleted files)) of the deleted files.
C20_SharedWordInEnoughFiles ==
    LET names == FileNames(HasStatus(heur.changes.files, "D"))
    IN  /\ heur.pc = "done"
        /\ Len(heur.changes.files) > 1
        /\ 10 * Len(names) > 7 * Len(heur.changes.files)
        /\ heur.words # <<>>
        /\ Includes(heur.subject, <<" ">> \o heur.words[1])
        => LET with == { i \in 1..Len(names) :
                           heur.words[1] \in SeqToSet(WordsOfFile(names[i])) }
               least == (3 * Len(names) + 9) \div 10
           IN  Cardinality(with) >= (IF least > 2 THEN least ELSE 2)


\* The signal sets generateSmartBody names in a bullet of their own.
BulletKinds ==
    {"newComponents", "newClasses", "newFunctions", "newImports", "configChanges",
     "apiChanges"}

\* line is the bullet of the body for the signal set kind.
IsBulletOf(kind, line) ==
    CASE kind = "newComponents" ->
           StartsWith(line, <<"-", " ", "Implemented", " ", "new", " ", "components", ":">>)
      [] kind = "newFunctions" ->
           StartsWith(line, <<"-", " ", "Implemented", " ", "helper", " ", "functions", ":">>)
      [] kind = "newImports" ->
           StartsWith(line, <<"-", " ", "Integrated", " ", "new", " ", "dependencies", ":">>)
      [] kind = "configChanges" ->
           StartsWith(line, <<"-", " ", "Updated", " ", "configuration", " ", "settings">>)
      [] kind = "newClasses" ->
           /\ StartsWith(line, <<"-", " ", "Added", " ">>)
           /\ EndsWith(line, <<" ", "for", " ", "improved", " ", "architecture">>)
      [] kind = "apiChanges" ->
           /\ StartsWith(line, <<"-", " ", "Added", " ">>)
           /\ Includes(line, <<" ", "API", " ", "endpoint">>)

\* The lines of the body of a change of several files.
BodyLines == IF Len(heur.changes.files) > 1 THEN SplitLines(heur.body) ELSE <<>>

\* C23 as stated: every signal bullet names at most 3 items of its set, and
\* with K more items in the set than the 3 named it says "and K more".
C23_ThreeNamedAndMore ==
    heur.pc = "done" =>
      \A kind \in BulletKinds : \A n \in 1..Len(BodyLines) :
        IsBulletOf(kind, BodyLines[n]) =>
          LET items == heur.out[kind]
              line  == BodyLines[n]
          IN  /\ Cardinality({ i \in 1..Len(items) : Includes(line, <<" ">> \o items[i]) }) <= 3
              /\ Len(items) > 3 =>
                   Includes(line, <<" ", "and", " ", ToString(Len(items) - 3), " ", "more">>)

\* C23 as amended: the bullets of the components, the functions and the
\* dependencies name the first 3 items of the set and, with K more items in
\* it, end with "and K more", "and K more utilities" and "and K others"; the
\* bullet of the configuration keys names the first 3 and says nothing of the
\* others; the bullets of the classes and of the API verbs name every item
\* of the set (at most 3 classes, at most 5 verbs).
C23_BulletPerSignal ==
    heur.pc = "done" =>
      \A kind \in BulletKinds : \A n \in 1..Len(BodyLines) :
        IsBulletOf(kind, BodyLines[n]) =>
          LET items  == heur.out[kind]
              k      == Len(items)
              three  == Join(SubSeq(items, 1, Min(3, k)), <<",", " ">>)
              all    == Join(items, <<",", " ">>)
              left   == IF k > 3 THEN <<" ", "and", " ", ToString(k - 3)>> ELSE <<>>
              word(w) == IF k > 3 THEN w ELSE <<>>
          IN  BodyLines[n] =
                CASE kind = "newComponents" ->
                       <<"-", " ", "Implemented", " ", "new", " ", "components", ":", " ">>
                       \o three \o left \o word(<<" ", "more">>)
                  [] kind = "newFunctions" ->
                       <<"-", " ", "Implemented", " ", "helper", " ", "functions", ":", " ">>
                       \o three \o left \o word(<<" ", "more", " ", "utilities">>)
                  [] kind = "newImports" ->
                       <<"-", " ", "Integrated", " ", "new", " ", "dependencies", ":", " ">>
                       \o three \o left \o word(<<" ", "others">>)
                  [] kind = "configChanges" ->
                       <<"-", " ", "Updated", " ", "configuration", " ", "settings", " ", "for", " ">>
                       \o three
                  [] kind = "newClasses" ->
                       <<"-", " ", "Added", " ">> \o all
                       \o (IF k > 1 THEN <<" ", "class", "es">> ELSE <<" ", "class">>)
                       \o <<" ", "for", " ", "improved", " ", "architecture">>
                  [] kind = "apiChanges" ->
                       <<"-", " ", "Added", " ">> \o all
                       \o (IF k > 1 THEN <<" ", "API", " ", "endpoint", "s">>
                                    ELSE <<" ", "API", " ", "endpoint">>)

\* Four components found in two files: three are named and one more is
\* counted.
C23_Witness ==
    /\ heur.pc = "done"
    /\ Len(heur.out.newComponents) = 4
    /\ \E n \in 1..Len(BodyLines) :
         /\ IsBulletOf("newComponents", BodyLines[n])
         /\ EndsWith(BodyLines[n], <<" ", "and", " ", "1", " ", "more">>)

----------------------------------------------------------------------------
(* The callers of the engine: CLI.review, CLI.commit and the generate       *)
(* route, with the cache file and the clock. The engine is a choice among   *)
(* the suggestion lists it returns; time is counted in minutes.             *)

MaxCommands == 2

MaxClock == 5

\* Date.now() when the first command starts, in minutes.
StartClock == 10

\* 5 * 60 * 1000 ms
ExpiryMinutes == 5

\* .ai-commit-cache.json when existsSync is false.
NoCacheFile ==
    [state |-> "absent", suggestions |-> <<>>, changesSummary |-> <<>>, timestamp |-> 0]

\* Mutant: the entry is returned whatever its age.
loadCache_anyAge(file, now) ==
    IF file.state = "entry" THEN file ELSE NoCacheFile

\* loadCache(): the entry, or null (NoCacheFile) when the file is absent, does
\* not parse or is five minutes old.
loadCache(file, now) ==
    IF file.state = "entry" /\ now - file.timestamp < ExpiryMinutes
    THEN file
    ELSE NoCacheFile

\* saveCache(suggestions, changesSummary): the file after writeFileSync.
saveCache(suggestions, changesSummary, now) ==
    [state |-> "entry", suggestions |-> suggestions,
     changesSummary |-> changesSummary, timestamp |-> now]

\* clearCache(): an existing file is overwritten with an empty entry.
clearCache(file) ==
    IF file.state # "absent" THEN saveCache(<<>>, <<>>, 0) ELSE file

\* Mutant: a later suggestion of equal confidence replaces the best one.
ReduceBest_lastWins(suggestions, i, best) ==
    LET picked == { k \in 1..Len(suggestions) :
                      \A j \in 1..Len(suggestions) :
                         suggestions[j].confidence <= suggestions[k].confidence }
    IN  suggestions[CHOOSE k \in picked : \A j \in picked : j <= k]

\* suggestions.reduce((best, current) =>
\*   current.confidence > best.confidence ? current : best), from element i on.
RECURSIVE ReduceBest(_, _, _)
ReduceBest(suggestions, i, best) ==
    IF i > Len(suggestions) THEN best
    ELSE ReduceBest(suggestions, i + 1,
                    IF suggestions[i].confidence > best.confidence
                    THEN suggestions[i] ELSE best)

\* The options object commander builds for the commit command: the option
\* '--no-confirm' defines the key confirm, true unless the flag is given.
CommanderOptions(noConfirmFlag) == [confirm |-> ~noConfirmFlag]

\* !options.noConfirm
Prompts(options) == ~("noConfirm" \in DOMAIN options /\ options["noConfirm"] = TRUE)

\* What a command may find in its working directory: no repository, or a
\* repository with nothing staged, with one or two files staged (two of the
\* single files differ in path and content and agree in the line counts), or
\* with a staged file whose diff query throws.
WorkingCopies ==
    LET util  == CHOOSE e \in StagedPool : e.index = "M"
        old   == CHOOSE e \in StagedPool : e.index = "D"
        guide == CHOOSE e \in StagedPool : e.index = "A"
        format == [path |-> <<"src", "/", "lib", "/", "format", ".", "ts">>, index |-> "M",
                   hunk |-> <<"+", "const", " ", "b", " ", "=", " ", "2", "\n", "-", "const", " ", "b", " ", "=", " ", "1">>]
    IN  { [repo |-> FALSE, entries |-> <<>>, failing |-> {}],
          [repo |-> TRUE, entries |-> <<>>, failing |-> {}],
          [repo |-> TRUE, entries |-> <<util>>, failing |-> {}],
          [repo |-> TRUE, entries |-> <<format>>, failing |-> {}],
          [repo |-> TRUE, entries |-> <<old>>, failing |-> {old.path}],
          [repo |-> TRUE, entries |-> <<util, guide>>, failing |-> {}] }

\* The suggestion lists generateCommitMessage returns: one heuristic
\* suggestion, or parsed ones.
EngineOutputs ==
    LET heuristic == [fullMessage |-> <<"fix", ":", " ", "update", " ", "util">>, confidence |-> HeuristicConfidence]
        parsed1   == [fullMessage |-> <<"feat", ":", " ", "add", " ", "constant">>, confidence |-> ParsedConfidence]
        parsed2   == [fullMessage |-> <<"chore", ":", " ", "tidy", " ", "util">>, confidence |-> ParsedConfidence]
    IN  { <<heuristic>>, <<parsed1, parsed2>> }

NoSuggestion == [fullMessage |-> <<>>, confidence |-> 0]

\* Mutant: the command goes on whatever the two checks find.
Begin_unchecked(c, cmd, noConfirmFlag, repo, changes) ==
    [c EXCEPT !.pc = "exit",
              !.commands = @ + 1, !.cmd = cmd, !.noConfirmFlag = noConfirmFlag,
              !.repo = repo, !.changes = changes,
              !.engineArgs = <<>>, !.suggestions = <<>>, !.fromCache = FALSE,
              !.best = NoSuggestion, !.committed = <<>>,
              !.gitCalls = <<"isGitRepository", "getStagedChanges">>,
              !.status = 0, !.message = Null, !.answer = Null,
              !.out = "changes"]

\* A command starts: isGitRepository, getStagedChanges and the hasChanges
\* check, which report 'not a repository' and 'no staged changes'.
Begin(c, cmd, noConfirmFlag, repo, changes) ==
    [c EXCEPT !.pc = "exit",
              !.commands = @ + 1, !.cmd = cmd, !.noConfirmFlag = noConfirmFlag,
              !.repo = repo,
              !.changes = IF repo THEN changes ELSE NoChanges,
              !.engineArgs = <<>>, !.suggestions = <<>>, !.fromCache = FALSE,
              !.best = NoSuggestion, !.committed = <<>>,
              !.gitCalls = <<"isGitRepository">>
                           \o (IF repo THEN <<"getStagedChanges">> ELSE <<>>),
              !.status = 0, !.message = Null, !.answer = Null,
              !.out = IF ~repo THEN "not a repository"
                      ELSE IF ~changes.hasChanges THEN "no staged changes"
                      ELSE "changes"]

\* await this.aiAssistant.generateCommitMessage(changes, aiOptions)
Generated(c, output) ==
    [c EXCEPT !.engineArgs = Append(@, c.changes), !.suggestions = output,
              !.out = "suggestions"]

\* await this.gitService.commit(message), which may throw; CLI.commit clears
\* the cache after it. cachedFor and predates are not in the program: they
\* record the files the cached suggestions were generated for, and whether
\* the cache holds suggestions stored before the last commit the CLI created.
Committed(c, message, commitOk, clear) ==
    LET file == IF commitOk /\ clear THEN clearCache(c.cacheFile) ELSE c.cacheFile
    IN  [c EXCEPT !.pc = "exit",
                  !.committed = IF commitOk THEN <<message>> ELSE @,
                  !.out = IF commitOk THEN "committed" ELSE "error",
                  !.gitCalls = Append(@, "commit"),
                  !.cacheFile = file,
                  !.cachedFor = IF file.suggestions = <<>> THEN <<>> ELSE @,
                  !.predates = IF commitOk /\ c.cmd \in {"commit", "review"}
                               THEN file.suggestions # <<>> ELSE @]

\* CLI.review after the checks.
Reviewed(b, output, interactive, now) ==
    IF b.out # "changes" THEN b
    ELSE [Generated(b, output) EXCEPT
            !.cacheFile = saveCache(output, b.changes.summary, now),
            !.cachedFor = b.changes.files, !.predates = FALSE,
            !.pc = IF interactive THEN "select" ELSE "exit"]

\* CLI.commit after the checks: the cached suggestions or new ones, the best
\* of them, and the prompt or the commit.
Committing(b, cache, output, commitOk, now) ==
    IF b.out # "changes" THEN b
    ELSE LET hit == /\ cache.state = "entry"
                    /\ cache.changesSummary = b.changes.summary
                    /\ Len(cache.suggestions) > 0
             got == IF hit
                    THEN [b EXCEPT !.suggestions = cache.suggestions, !.fromCache = TRUE,
                                   !.out = "suggestions"]
                    ELSE [Generated(b, output) EXCEPT
                            !.cacheFile = saveCache(output, b.changes.summary, now),
                            !.cachedFor = b.changes.files, !.predates = FALSE]
         IN  IF Prompts(CommanderOptions(b.noConfirmFlag))
             THEN [got EXCEPT !.best = ReduceBest(got.suggestions, 2, got.suggestions[1]),
                              !.pc = "confirm"]
             ELSE Committed([got EXCEPT !.best = ReduceBest(got.suggestions, 2, got.suggestions[1])],
                            ReduceBest(got.suggestions, 2, got.suggestions[1]).fullMessage,
                            commitOk, TRUE)

CliInit ==
    /\ \E copy \in {"newer", "older"} :
       \E file \in { NoCacheFile,
                      [NoCacheFile EXCEPT !.state = "corrupt"],
                      saveCache(<< [fullMessage |-> <<"fix", ":", " ", "first">>, confidence |-> HeuristicConfidence],
                                   [fullMessage |-> <<"feat", ":", " ", "second">>, confidence |-> ParsedConfidence],
                                   [fullMessage |-> <<"feat", ":", " ", "third">>, confidence |-> ParsedConfidence] >>,
                                getStagedChanges(copy, StatusOf(<<CHOOSE e \in StagedPool : e.index = "M">>),
                                    DiffOf(<<CHOOSE e \in StagedPool : e.index = "M">>, {})).summary,
                                StartClock) } :
         cli = [pc |-> "shell", copy |-> copy, now |-> StartClock, cacheFile |-> file,
                commands |-> 0, cmd |-> "none", noConfirmFlag |-> FALSE, repo |-> FALSE,
                changes |-> NoChanges, engineArgs |-> <<>>, suggestions |-> <<>>,
                fromCache |-> FALSE, best |-> NoSuggestion, committed |-> <<>>,
                out |-> "none", gitCalls |-> <<>>, status |-> 0, message |-> Null,
                answer |-> Null,
                cachedFor |-> IF file.suggestions = <<>> THEN <<>>
                              ELSE getStagedChanges(copy, StatusOf(<<CHOOSE e \in StagedPool : e.index = "M">>),
                                       DiffOf(<<CHOOSE e \in StagedPool : e.index = "M">>, {})).files,
                predates |-> FALSE]
    /\ parse = [pc |-> "idle", text |-> <<>>, out |-> <<>>]
    /\ classify = ClassifyIdle
    /\ EngineIdle
    /\ Unused(git) /\ Unused(heur) /\ Unused(fallback)

\* ai-commit review [--interactive]
Review ==
    /\ cli.pc = "shell"
    /\ cli.commands < MaxCommands
    /\ \E interactive \in BOOLEAN, work \in WorkingCopies, output \in EngineOutputs :
         cli' = Reviewed(Begin(cli, "review", FALSE, work.repo,
                               getStagedChanges(cli.copy, StatusOf(work.entries),
                                                DiffOf(work.entries, work.failing))),
                         output, interactive, cli.now)
    /\ UNCHANGED <<parse, classify, engineVars, git, heur, fallback>>

\* The decimal digits, one token each.
DigitValue ==
    ("0" :> 0) @@ ("1" :> 1) @@ ("2" :> 2) @@ ("3" :> 3) @@ ("4" :> 4)
    @@ ("5" :> 5) @@ ("6" :> 6) @@ ("7" :> 7) @@ ("8" :> 8) @@ ("9" :> 9)

\* parseInt(s): the number the leading digits of s read, after white space
\* and whatever follows them; NaN without a leading digit.
RECURSIVE LeadingDigits(_, _, _)
LeadingDigits(s, i, value) ==
    IF i <= Len(s) /\ s[i] \in DOMAIN DigitValue
    THEN LeadingDigits(s, i + 1, 10 * value + DigitValue[s[i]])
    ELSE value

parseInt(s) ==
    LET t == TrimStart(s)
    IN  IF t # <<>> /\ t[1] \in DOMAIN DigitValue
        THEN [nan |-> FALSE, value |-> LeadingDigits(t, 1, 0)]
        ELSE [nan |-> TRUE, value |-> 0]

\* What is typed at 'Select a suggestion (1-n):'.
SelectAnswers ==
    { <<"1", NL>>, <<"2", NL>>, <<"3", NL>>, <<"0", NL>>, <<"2", "abc", NL>>,
      <<"abc", NL>>, <<NL>> }

\* What is typed at 'Proceed with commit? (y/N)'.
ConfirmAnswers == { <<"y">>, <<"Y">>, <<" ", "Yes", NL>>, <<"n">>, <<NL>> }

\* selectSuggestion: the answer on stdin, trimmed and read by parseInt,
\* selects a suggestion, which is committed; otherwise the selection is
\* invalid.
ReviewSelect ==
    /\ cli.pc = "select"
    /\ \E answer \in SelectAnswers, commitOk \in BOOLEAN :
         LET parsed == parseInt(Trim(answer))
             index  == parsed.value - 1
         IN  cli' = IF ~parsed.nan /\ index >= 0 /\ index < Len(cli.suggestions)
                    THEN [Committed(cli, cli.suggestions[index + 1].fullMessage, commitOk, FALSE)
                            EXCEPT !.answer = answer]
                    ELSE [cli EXCEPT !.pc = "exit", !.out = "invalid selection",
                                     !.answer = answer]
    /\ UNCHANGED <<parse, classify, engineVars, git, heur, fallback>>

\* ai-commit commit [--no-confirm]
Commit ==
    /\ cli.pc = "shell"
    /\ cli.commands < MaxCommands
    /\ \E noConfirmFlag \in BOOLEAN, work \in WorkingCopies,
          output \in EngineOutputs, commitOk \in BOOLEAN :
         cli' = Committing(Begin(cli, "commit", noConfirmFlag, work.repo,
                                 getStagedChanges(cli.copy, StatusOf(work.entries),
                                                  DiffOf(work.entries, work.failing))),
                           loadCache(cli.cacheFile, cli.now), output, commitOk, cli.now)
    /\ UNCHANGED <<parse, classify, engineVars, git, heur, fallback>>

\* The answer to 'Proceed with commit? (y/N)' arrives on stdin and is
\* lower-cased and trimmed.
CommitAnswer ==
    /\ cli.pc = "confirm"
    /\ \E answer \in ConfirmAnswers, commitOk \in BOOLEAN :
         LET typed == Trim(ToLowerCase(answer))
         IN  cli' = IF typed # <<"y">> /\ typed # <<"yes">>
                    THEN [cli EXCEPT !.pc = "exit", !.out = "cancelled", !.answer = answer]
                    ELSE [Committed(cli, cli.best.fullMessage, commitOk, TRUE)
                            EXCEPT !.answer = answer]
    /\ UNCHANGED <<parse, classify, engineVars, git, heur, fallback>>

\* POST /api/ai-commit/generate
GenerateRoute ==
    /\ cli.pc = "shell"
    /\ cli.commands < MaxCommands
    /\ \E work \in WorkingCopies, output \in EngineOutputs :
         LET b == Begin(cli, "generate", FALSE, work.repo,
                        getStagedChanges(cli.copy, StatusOf(work.entries),
                                         DiffOf(work.entries, work.failing)))
         IN  cli' = IF b.out = "changes" THEN Generated(b, output) ELSE b
    /\ UNCHANGED <<parse, classify, engineVars, git, heur, fallback>>

\* The message of the request body: missing, empty, or a commit message.
RouteMessages == { Null, <<>>, <<"fix", ":", " ", "typed", " ", "by", " ", "hand">> }

\* POST /api/ai-commit/commit
CommitRoute ==
    /\ cli.pc = "shell"
    /\ cli.commands < MaxCommands
    /\ \E message \in RouteMessages, work \in WorkingCopies, commitOk \in BOOLEAN :
         LET b == Begin(cli, "commitRoute", FALSE, work.repo,
                        getStagedChanges(cli.copy, StatusOf(work.entries),
                                         DiffOf(work.entries, work.failing)))
         IN  cli' = IF ~Truthy(message)
                    THEN [Begin(cli, "commitRoute", FALSE, FALSE, NoChanges) EXCEPT
                            !.gitCalls = <<>>, !.out = "message required",
                            !.status = 400, !.message = message]
                    ELSE IF b.out # "changes"
                    THEN [b EXCEPT !.status = 400, !.message = message]
                    ELSE [Committed(b, message, commitOk, FALSE) EXCEPT
                            !.status = IF commitOk THEN 200 ELSE 500,
                            !.message = message]
    /\ UNCHANGED <<parse, classify, engineVars, git, heur, fallback>>

\* The process, or the request handler, ends: what it held is gone, and the
\* cache file and the clock remain.
ProcessExit ==
    /\ cli.pc = "exit"
    /\ cli' = [cli EXCEPT !.pc = "shell", !.cmd = "none", !.noConfirmFlag = FALSE,
                          !.repo = FALSE, !.changes = NoChanges, !.engineArgs = <<>>,
                          !.suggestions = <<>>, !.fromCache = FALSE,
                          !.best = NoSuggestion, !.committed = <<>>, !.out = "none",
                          !.gitCalls = <<>>, !.status = 0, !.message = Null,
                          !.answer = Null]
    /\ UNCHANGED <<parse, classify, engineVars, git, heur, fallback>>

\* A minute passes between two commands.
Tick ==
    /\ cli.pc = "shell"
    /\ cli.now < StartClock + MaxClock
    /\ cli' = [cli EXCEPT !.now = @ + 1]
    /\ UNCHANGED <<parse, classify, engineVars, git, heur, fallback>>

CliNext ==
    \/ Review
    \/ ReviewSelect
    \/ Commit
    \/ CommitAnswer
    \/ GenerateRoute
    \/ CommitRoute
    \/ ProcessExit
    \/ Tick

CliSpec == CliInit /\ [][CliNext]_vars

C13_EngineOnlyOnChanges ==
    /\ \A i \in 1..Len(cli.engineArgs) :
         cli.repo /\ Len(cli.engineArgs[i].files) > 0
    /\ cli.out \in {"not a repository", "no staged changes"} => cli.engineArgs = <<>>

\* C16 as stated: a commit command given --no-confirm never prompts, that is,
\* never waits for an answer on stdin.
C16_NoConfirmNeverPrompts ==
    cli.cmd = "commit" /\ cli.noConfirmFlag => cli.pc # "confirm"

\* C17: the suggestion CLI.commit takes is one of maximal confidence among
\* the candidates, the earliest of them, and the message committed is its
\* fullMessage.
C17_BestIsFirstMaximal ==
    cli.cmd = "commit" /\ cli.suggestions # <<>> =>
      /\ \E i \in 1..Len(cli.suggestions) :
           /\ cli.best = cli.suggestions[i]
           /\ \A j \in 1..Len(cli.suggestions) :
                cli.suggestions[j].confidence <= cli.suggestions[i].confidence
           /\ \A j \in 1..(i - 1) :
                cli.suggestions[j].confidence < cli.suggestions[i].confidence
      /\ cli.committed # <<>> => cli.committed = <<cli.best.fullMessage>>

\* Three candidates, the second and third of the highest confidence: the
\* second is committed.
C17_Witness ==
    /\ cli.cmd = "commit"
    /\ Len(cli.suggestions) = 3
    /\ cli.suggestions[1].confidence < cli.suggestions[2].confidence
    /\ cli.suggestions[2].confidence = cli.suggestions[3].confidence
    /\ cli.committed = <<cli.suggestions[2].fullMessage>>

\* C24: GitService.commit is called only by CLI.commit, CLI.review and the
\* commit route, after isGitRepository returned true and getStagedChanges
\* reported changes; when either check fails the command ends without the
\* call, and the commit route answers a missing or empty message with status
\* 400 before any call of the GitService.
C24_CommitOnlyOnStagedChanges ==
    /\ "commit" \in SeqToSet(cli.gitCalls) =>
         /\ cli.cmd \in {"commit", "review", "commitRoute"}
         /\ cli.repo /\ cli.changes.hasChanges
         /\ cli.gitCalls = <<"isGitRepository", "getStagedChanges", "commit">>
    /\ cli.committed # <<>> => "commit" \in SeqToSet(cli.gitCalls)
    /\ (cli.cmd = "commitRoute" /\ cli.message \in {Null, <<>>}) =>
         /\ cli.status = 400
         /\ cli.gitCalls = <<>>
    /\ (cli.cmd = "commitRoute" /\ ~(cli.repo /\ cli.changes.hasChanges)) =>
         cli.status = 400

\* The commit route is given a message in a repository with nothing staged.
C24_Witness ==
    /\ cli.cmd = "commitRoute"
    /\ cli.message \notin {Null, <<>>}
    /\ cli.repo /\ ~cli.changes.hasChanges
    /\ cli.status = 400
    /\ cli.gitCalls = <<"isGitRepository", "getStagedChanges">>

\* C25 as stated: a commit command never takes from the cache suggestions
\* that were stored before a commit the CLI created.
C25_NoReuseAfterCommit ==
    (cli.cmd = "commit" /\ cli.fromCache) => ~cli.predates

\* C26 as stated: an answer to the confirmation other than y or yes, in any
\* case and with white space around it, creates no commit and leaves the
\* cache file as it is; an answer to the selection that is not a number from
\* 1 to the number of suggestions creates no commit.
C26_NoCommitOnOtherAnswer ==
    [][ /\ (cli.pc = "confirm" /\ cli'.answer \in {<<"n">>, <<NL>>}) =>
             /\ cli'.committed = <<>>
             /\ cli'.gitCalls = cli.gitCalls
             /\ cli'.cacheFile = cli.cacheFile
        /\ (/\ cli.pc = "select"
            /\ cli'.answer \notin { <<ToString(k), NL>> : k \in 1..Len(cli.suggestions) }) =>
             /\ cli'.committed = <<>>
             /\ cli'.gitCalls = cli.gitCalls ]_vars

\* C29 as stated: the suggestions a commit command takes from the cache were
\* generated for the files and diffs that are staged now.
C29_CacheForSameChangeSet ==
    (cli.cmd = "commit" /\ cli.fromCache) => cli.cachedFor = cli.changes.files


----------------------------------------------------------------------------
(* generateFallbackSuggestions on its own: every list of at most            *)
(* MaxScopeFiles source files of ScopePool, every list of five              *)
(* documentation files of DocsPool, and the permutations of the former.     *)

MaxScopeFiles == 3

\* Source files of no special kind, in generic and in named directories.
ScopePool ==
    LET Note == <<"+", "/", "/", " ", "note", "\n", "-", "/", "/", " ", "todo">>
    IN  { Staged(<<"src", "/", "util", ".", "ts">>, "M", Note),
          Staged(<<"src", "/", "lib", "/", "parse", ".", "ts">>, "M", Note),
          Staged(<<"src", "/", "lib", "/", "format", ".", "ts">>, "M", Note),
          Staged(<<"src", "/", "hooks", "/", "auth", ".", "ts">>, "M", Note),
          Staged(<<"src", "/", "hooks", "/", "data", ".", "ts">>, "M", Note),
          Staged(<<"src", "/", "models", "/", "user", ".", "ts">>, "M", Note),
          Staged(<<"src", "/", "x", "/", "main", ".", "ts">>, "M", Note) }

\* Markdown files under docs/: a new guide of 20 added lines, pages edited in
\* place (one showing a code sample), pages of a sub-directory that were
\* deleted, and a page whose name has .spec. in it.
DocsPool ==
    LET Prose   == <<"+", "See", " ", "the", " ", "guide", "\n", "-", "See", " ", "below">>
        Gone    == <<"-", "See", " ", "the", " ", "guide">>
        Sample  == <<"+", "function", " ", "install", "(", ")", " ", "{", "\n", "+", "}">>
        Page(n) == <<"+", "Step", " ", ToString(n)>>
        Doc(name) == <<"docs", "/">> \o name \o <<".", "md">>
    IN  << Staged(Doc(<<"guide">>), "A", Join([n \in 1..19 |-> Page(n)], <<NL>>)),
           Staged(Doc(<<"setup">>), "M", Prose),
           Staged(Doc(<<"faq">>), "M", Prose),
           Staged(Doc(<<"changelog">>), "M", Prose),
           Staged(Doc(<<"intro">>), "M", Prose),
           Staged(Doc(<<"usage">>), "M", Sample),
           Staged(Doc(<<"reference", "/", "hooks">>), "D", Gone),
           Staged(Doc(<<"reference", "/", "types">>), "D", Gone),
           Staged(Doc(<<"reference", "/", "errors">>), "D", Gone),
           Staged(Doc(<<"archive">>), "D", Gone),
           Staged(Doc(<<"api", ".", "spec">>), "M", Prose) >>

\* The lists of five files of DocsPool, in the order of the pool.
DocsLists ==
    { [i \in 1..5 |-> DocsPool[pick[i]]] :
        pick \in { q \in [1..5 -> 1..Len(DocsPool)] : \A i \in 1..4 : q[i] < q[i + 1] } }

FallbackInit ==
    /\ fallback \in { [pc |-> "ready", files |-> fs, perm |-> <<>>, out |-> <<>>, outPerm |-> <<>>] :
                        fs \in ListsOf(ScopePool, MaxScopeFiles) \cup DocsLists }
    /\ parse = [pc |-> "idle", text |-> <<>>, out |-> <<>>]
    /\ classify = ClassifyIdle
    /\ EngineIdle
    /\ Unused(git) /\ Unused(heur) /\ Unused(cli)

\* generateFallbackSuggestions(changes)
FallbackCall ==
    /\ fallback.pc = "ready"
    /\ fallback' = [fallback EXCEPT
                      !.pc = "done",
                      !.out = generateFallbackSuggestions(StagedChanges(fallback.files))]
    /\ UNCHANGED <<parse, classify, engineVars, git, heur, cli>>

\* generateFallbackSuggestions on the same files in another order.
FallbackPermuted ==
    /\ fallback.pc = "done"
    /\ Len(fallback.files) <= MaxScopeFiles
    /\ \E p \in PermutationsOf(Len(fallback.files)) :
         LET permuted == Permutation(fallback.files, p)
         IN  fallback' = [fallback EXCEPT
                            !.pc = "permuted",
                            !.perm = permuted,
                            !.outPerm = generateFallbackSuggestions(StagedChanges(permuted))]
    /\ UNCHANGED <<parse, classify, engineVars, git, heur, cli>>

FallbackNext == FallbackCall \/ FallbackPermuted

FallbackSpec == FallbackInit /\ [][FallbackNext]_vars


\* The categories generateSmartScope gives a scope of their own.
ScopedCategories == {"API", "components", "testing", "cli", "build"}

CategoryOf(files) == analyzeChangesForFallback(StagedChanges(files)).category

\* The scope when no directory name is returned: lib for more than 60% of the
\* files under a lib path, and none otherwise.
LibScope(files) ==
    LET UnderLib(f) == \/ Includes(f.file, <<"/", "lib", "/">>)
                       \/ StartsWith(f.file, <<"lib", "/">>)
    IN  IF 10 * Len(SelectSeq(files, UnderLib)) > 6 * Len(files) THEN <<"lib">> ELSE Null

\* The members of dirs that no other member outnumbers.
MostFrequent(dirs) ==
    { d \in SeqToSet(dirs) : \A e \in SeqToSet(dirs) : Count(dirs, e) <= Count(dirs, d) }

DocsScenario(files) ==
    /\ Len(files) = 5
    /\ \A i \in 1..5 :
         /\ StartsWith(files[i].file, <<"docs", "/">>)
         /\ EndsWith(files[i].file, <<".", "md">>)
         /\ ~PathMatches(files[i].file, "components")
         /\ ~PathMatches(files[i].file, "api")
    /\ \E i \in 1..5 : files[i].additions = 20

====
